---- MODULE Spec2Model ----
(***************************************************************************)
(* Model of the PoliTopicsRecap queue processor: the SQS Lambda handler,   *)
(* the map and reduce executors, the requeue/ack protocol and the          *)
(* DynamoDB single-table writer (storeData / batchPutAll).                 *)
(*                                                                         *)
(* Every await of the TypeScript code is one step of the model: the        *)
(* external call it waits for either succeeds or throws, chosen by the     *)
(* environment.  History is kept in `log` (one entry per external call).   *)
(***************************************************************************)
EXTENDS Integers, Sequences, FiniteSets, TLC

VARIABLES
  queue,      \* messages held by the SQS queue (not deleted): set of [mid, task, body]
  records,    \* event.Records of the current invocation: sequence of [mid, task, body]
  cur,        \* 1-based index of the record the handler's for-loop is at
  pc,         \* the await the handler is suspended at
  message,    \* the parsed PromptTaskMessage of the current record
  rq,         \* requeueWithDelay frame: [site, call] (who called it, how many calls so far)
  blobs,      \* S3: function from existing locators to their content
  table,      \* DynamoDB table: set of rows [PK, SK]
  article,    \* the Article handed to storeData
  items,      \* batchPutAll: the (growing) items array
  i,          \* batchPutAll: window start (0-based)
  rejects,    \* number of BatchWrite calls that returned UnprocessedItems so far
  stores,     \* number of storeData calls started directly (writer specification)
  chunks,     \* reduce: the chunkResults loaded from S3
  result,     \* map: the generator's response
  log,        \* history of external calls: sequence of records
  codec,      \* codec runs: the payload under decode/encode and what came out
  limiter,    \* TokenBucketRateLimiter fields: capacity, rate, tokens, lastRefillTimestamp
  now,        \* Date.now() in ms
  acquire,    \* the acquire() calls on the limiter: each call's position
  policy,     \* retry policy: the arguments of pickDelaySeconds or classifyError, and the result
  twin,       \* a second delivery of the same task running storeData: its position and rows
  faults      \* failed calls counted so far when failures are bounded: [on, n]

handlerVars == <<queue, records, cur, pc, message, rq, blobs, table, article, items, i,
                 rejects, stores, chunks, result, log>>
codecVars == <<codec>>
limiterVars == <<limiter, now, acquire>>
policyVars == <<policy>>
twinVars == <<twin>>
liveVars == <<faults>>

vars == <<handlerVars, codecVars, limiterVars, policyVars, twinVars, liveVars>>

----------------------------------------------------------------------------
(* Bounds of the model. *)

\* BatchWrite calls that may come back with UnprocessedItems in one run
MaxRejects == 1
\* rows per BatchWriteCommand: the code's 25 (storeData.ts:168,180) scaled down
\* so that several windows and partial rejections fit in the model
BatchLimit == 2
\* direct storeData calls in the writer specification
MaxStores == 2
\* acquire() calls made on one limiter
MaxCallers == 3
\* the latest instant (ms after the limiter's construction) Date.now() reaches
MaxClock == 1000
\* the largest attempt number handed to pickDelaySeconds
MaxAttempt == 7
\* deliveries of a reduce task ahead of its map task explored by the liveness specification
MaxRequeues == 1
\* failed calls explored by the liveness specification
MaxFaults == 1

(* Program constants. *)
MAX_SQS_DELAY_SECONDS == 900
FIVE_MINUTES_SECONDS == 300
\* numberFromEnv('MAX_ATTEMPTS', 5)
DEFAULT_MAX_ATTEMPTS == 5
\* the 1_000 of refillRatePerMs; the model counts tokens in 1/1000 of a token,
\* so that elapsed * refillRatePerMs is the integer elapsed * rate
MS_PER_SECOND == 1000

----------------------------------------------------------------------------
(* JSON values as the codec sees them.  typeof is the tag t.  A number is  *)
(* num/den (den = 0: not finite); strings that the code takes apart (S3    *)
(* URIs, dates) carry their structure instead of their characters.         *)

Undefined == [t |-> "undefined"]
JNull == [t |-> "null"]
JTrue == [t |-> "boolean"]
JStr(s) == [t |-> "string", s |-> s]
JUri(u) == [t |-> "string", uri |-> u]
JDate(d) == [t |-> "string", dt |-> d]
JNum(n) == [t |-> "number", num |-> n, den |-> 1]
JFrac(n, d) == [t |-> "number", num |-> n, den |-> d]
JArr(a) == [t |-> "array", a |-> a]
JObj(o) == [t |-> "object", o |-> o]
\* an object of more than one key, with the order of its keys in the text:
\* JSON.parse keeps the keys in that order and JSON.stringify writes them in it
JObjOrdered(keys, o) == [t |-> "object", o |-> o, keys |-> keys]

\* the body text of a record that JSON.parse rejects
Garbage == [t |-> "garbage"]

Min(a, b) == IF a < b THEN a ELSE b
Max(a, b) == IF a > b THEN a ELSE b

\* Math.floor of a finite number
Floor(v) == v.num \div v.den

\* Math.round(v / 1000) of a finite number: floor(v / 1000 + 1/2)
RoundThousandth(v) == (2 * v.num + 1000 * v.den) \div (2000 * v.den)

\* resolveConfig: maxAttempts = Math.max(1, numberFromEnv('MAX_ATTEMPTS', 5))
maxAttempts == Max(1, DEFAULT_MAX_ATTEMPTS)

----------------------------------------------------------------------------
(* S3 URIs: "<scheme>://" followed by `rest`, a sequence of characters     *)
(* (a bucket or key name counts as one character, "/" is the separator).   *)

Uri(scheme, rest) == [scheme |-> scheme, rest |-> rest]

RECURSIVE IndexOf(_, _, _)
\* String.prototype.indexOf, 0-based, -1 when absent
IndexOf(s, c, from) ==
  IF from > Len(s) THEN -1
  ELSE IF s[from] = c THEN from - 1
  ELSE IndexOf(s, c, from + 1)

\* uri.startsWith('s3://')
StartsWithS3(v) == v.t = "string" /\ "uri" \in DOMAIN v /\ v.uri.scheme = "s3"

\* parseS3Uri: [ok |-> FALSE] when it throws
parseS3Uri(v) ==
  IF ~StartsWithS3(v) THEN [ok |-> FALSE]
  ELSE LET remainder == v.uri.rest
           slashIndex == IndexOf(remainder, "/", 1)
       IN IF slashIndex <= 0 \/ slashIndex = Len(remainder) - 1
          THEN [ok |-> FALSE]
          ELSE [ok |-> TRUE,
                bucket |-> SubSeq(remainder, 1, slashIndex),
                key |-> SubSeq(remainder, slashIndex + 2, Len(remainder))]

Locator(p) == [bucket |-> p.bucket, key |-> p.key]

----------------------------------------------------------------------------
(* Task Message Codec *)

\* property access body.f on a parsed JSON value (undefined when absent)
Get(v, f) == IF v.t = "object" /\ f \in DOMAIN v.o THEN v.o[f] ELSE Undefined

isRecord(v) == v.t \in {"object", "array"}

isFiniteNumber(v) == v.t = "number" /\ v.den # 0

\* typeof v === 'string' && v.length !== 0
NonEmptyString(v) ==
  /\ v.t = "string"
  /\ ~("s" \in DOMAIN v /\ v.s = "")
  /\ ~("cs" \in DOMAIN v /\ v.cs = <<>>)

\* Number(value) for the values normalizeRetryAttempts can meet; NaN is
\* [t |-> "number", num |-> 0, den |-> 0]
NaN == [t |-> "number", num |-> 0, den |-> 0]
NumberOfString(s) ==
  CASE s = "" -> JNum(0)
    [] s = "0" -> JNum(0)
    [] s = "1" -> JNum(1)
    [] s = "2" -> JNum(2)
    [] s = "-1" -> JNum(-1)
    [] OTHER -> NaN
ToNumber(v) ==
  CASE v.t = "number" -> v
    [] v.t = "null" -> JNum(0)
    [] v.t = "boolean" -> JNum(1)
    [] v.t = "string" /\ "s" \in DOMAIN v -> NumberOfString(v.s)
    [] v.t = "array" /\ Len(v.a) = 0 -> JNum(0)
    [] OTHER -> NaN

\* mutant: a value that is not a non-negative finite number becomes 0, and
\* nothing is coerced or floored
normalizeRetryAttempts_NoCoercion(value) ==
  IF value.t = "number" /\ value.den # 0 /\ value.num >= 0 THEN value ELSE JNum(0)

normalizeRetryAttempts(value) ==
  IF value.t = "number" /\ value.den # 0 /\ value.num >= 0
  THEN JNum(Floor(value))
  ELSE LET parsed == ToNumber(value)
       IN IF parsed.den # 0 /\ parsed.num >= 0 THEN JNum(Floor(parsed)) ELSE JNum(0)

\* mutant: only the discriminant is checked
isMapPromptTaskMessage_TypeOnly(value) ==
  isRecord(value) /\ Get(value, "type") = JStr("map")

isMapPromptTaskMessage(value) ==
  /\ isRecord(value)
  /\ Get(value, "type") = JStr("map")
  /\ StartsWithS3(Get(value, "url"))
  /\ StartsWithS3(Get(value, "result_url"))
  /\ NonEmptyString(Get(value, "llm"))
  /\ NonEmptyString(Get(value, "llmModel"))
  /\ (Get(value, "meta") = Undefined \/ isRecord(Get(value, "meta")))
  /\ isFiniteNumber(Get(value, "retryAttempts")) /\ Get(value, "retryAttempts").num >= 0
  /\ isFiniteNumber(Get(value, "retryMs_in")) /\ Get(value, "retryMs_in").num >= 0

\* {...body, retryAttempts: normalizeRetryAttempts(body.retryAttempts)}
WithField(body, f, v) ==
  JObj([g \in DOMAIN body.o \cup {f} |-> IF g = f THEN v ELSE body.o[g]])

parseMapPromptTaskMessage(body) ==
  IF body.t = "object" /\ Get(body, "type") = JStr("map")
  THEN LET normalized ==
             WithField(body, "retryAttempts",
                       normalizeRetryAttempts(Get(body, "retryAttempts")))
       IN IF isMapPromptTaskMessage(normalized)
          THEN [ok |-> TRUE, msg |-> normalized]
          ELSE [ok |-> FALSE]
  ELSE [ok |-> FALSE]

isMeeting(value) ==
  /\ isRecord(value)
  /\ Get(value, "issueID").t = "string"
  /\ Get(value, "nameOfMeeting").t = "string"
  /\ Get(value, "nameOfHouse").t = "string"
  /\ Get(value, "date").t = "string"
  /\ isFiniteNumber(Get(value, "numberOfSpeeches"))

isReducePromptTaskMessage(value) ==
  /\ isRecord(value)
  /\ Get(value, "type") = JStr("reduce")
  /\ Get(value, "chunk_result_urls").t = "array"
  /\ Len(Get(value, "chunk_result_urls").a) # 0
  /\ \A k \in 1..Len(Get(value, "chunk_result_urls").a) :
        StartsWithS3(Get(value, "chunk_result_urls").a[k])
  /\ (Get(value, "meta") = Undefined \/ isRecord(Get(value, "meta")))
  /\ NonEmptyString(Get(value, "prompt"))
  /\ NonEmptyString(Get(value, "issueID"))
  /\ isMeeting(Get(value, "meeting"))
  /\ NonEmptyString(Get(value, "llm"))
  /\ NonEmptyString(Get(value, "llmModel"))
  /\ isFiniteNumber(Get(value, "retryAttempts")) /\ Get(value, "retryAttempts").num >= 0
  /\ isFiniteNumber(Get(value, "retryMs_in")) /\ Get(value, "retryMs_in").num >= 0

RECURSIVE FilterStrings(_)
\* urls.filter((url) => typeof url === 'string')
FilterStrings(a) ==
  IF a = <<>> THEN <<>>
  ELSE IF Head(a).t = "string" THEN <<Head(a)>> \o FilterStrings(Tail(a))
  ELSE FilterStrings(Tail(a))

parseReducePromptTaskMessage(body) ==
  IF body.t = "object" /\ Get(body, "type") = JStr("reduce")
  THEN LET urls == Get(body, "chunk_result_urls")
           normalized ==
             WithField(
               WithField(body, "retryAttempts",
                         normalizeRetryAttempts(Get(body, "retryAttempts"))),
               "chunk_result_urls",
               IF urls.t = "array" THEN JArr(FilterStrings(urls.a)) ELSE JArr(<<>>))
       IN IF isReducePromptTaskMessage(normalized)
          THEN [ok |-> TRUE, msg |-> normalized]
          ELSE [ok |-> FALSE]
  ELSE [ok |-> FALSE]

\* body.type == "map" (loose equality: a one-element array compares equal too)
LooseEq(v, s) ==
  \/ v = JStr(s)
  \/ v.t = "array" /\ v.a = <<JStr(s)>>

\* parsePromptTaskMessage: [ok |-> FALSE] when it throws (JSON.parse included)
parsePromptTaskMessage(body) ==
  IF body.t = "garbage" THEN [ok |-> FALSE]
  ELSE IF body.t \in {"null", "undefined"} THEN [ok |-> FALSE]
  ELSE IF LooseEq(Get(body, "type"), "map") THEN parseMapPromptTaskMessage(body)
  ELSE IF LooseEq(Get(body, "type"), "reduce") THEN parseReducePromptTaskMessage(body)
  ELSE [ok |-> FALSE]

----------------------------------------------------------------------------
(* Dates.  A date string carries its parsed shape:                         *)
(*   form "empty"   a blank string                                         *)
(*   form "date"    YYYY-MM-DD                                             *)
(*   form "iso"     YYYY-MM-DDThh:00:00 with a UTC offset of `off` hours   *)
(*   form "space"   YYYY-MM-DD hh:00:00                                    *)
(*   form "garbage" text that Date cannot parse                            *)
(* The normalized value is the UTC instant [y, mo, d, hh], which stands    *)
(* for the fixed-width string Date.prototype.toISOString returns.          *)

DateStr(form, y, mo, d, hh, off) ==
  [form |-> form, y |-> y, mo |-> mo, d |-> d, hh |-> hh, off |-> off]

IsLeap(y) == (y % 4 = 0 /\ y % 100 # 0) \/ y % 400 = 0
DaysIn(y, mo) ==
  IF mo = 2 THEN (IF IsLeap(y) THEN 29 ELSE 28)
  ELSE IF mo \in {4, 6, 9, 11} THEN 30 ELSE 31

ValidYMD(x) == x.mo \in 1..12 /\ x.d \in 1..DaysIn(x.y, x.mo) /\ x.hh \in 0..23

\* the instant h hours (|h| < 24) after the UTC wall time [y, mo, d, hh]
ShiftHours(x, h) ==
  LET t == x.hh + h
  IN IF t < 0
     THEN IF x.d > 1 THEN [y |-> x.y, mo |-> x.mo, d |-> x.d - 1, hh |-> t + 24]
          ELSE IF x.mo > 1
               THEN [y |-> x.y, mo |-> x.mo - 1, d |-> DaysIn(x.y, x.mo - 1), hh |-> t + 24]
               ELSE [y |-> x.y - 1, mo |-> 12, d |-> 31, hh |-> t + 24]
     ELSE IF t >= 24
     THEN IF x.d < DaysIn(x.y, x.mo)
          THEN [y |-> x.y, mo |-> x.mo, d |-> x.d + 1, hh |-> t - 24]
          ELSE IF x.mo < 12 THEN [y |-> x.y, mo |-> x.mo + 1, d |-> 1, hh |-> t - 24]
               ELSE [y |-> x.y + 1, mo |-> 1, d |-> 1, hh |-> t - 24]
     ELSE [y |-> x.y, mo |-> x.mo, d |-> x.d, hh |-> t]

\* mutant: a blank or unparseable string is taken for the epoch
toIsoUtc_BlankAsEpoch(dateLike) ==
  IF dateLike.t \in {"undefined", "null"} THEN [r |-> "undefined"]
  ELSE IF dateLike.t = "string" /\ "dt" \in DOMAIN dateLike /\ ValidYMD(dateLike.dt)
  THEN [r |-> "iso",
        iso |-> [y |-> dateLike.dt.y, mo |-> dateLike.dt.mo, d |-> dateLike.dt.d,
                 hh |-> dateLike.dt.hh]]
  ELSE [r |-> "iso", iso |-> [y |-> 1970, mo |-> 1, d |-> 1, hh |-> 0]]

\* toIsoUtc: [r |-> "iso", iso |-> ...], [r |-> "undefined"] or [r |-> "throw"]
toIsoUtc(dateLike) ==
  IF dateLike.t \in {"undefined", "null"} THEN [r |-> "undefined"]
  ELSE IF dateLike.t # "string" \/ "dt" \notin DOMAIN dateLike THEN [r |-> "throw"]
  ELSE LET x == dateLike.dt
       IN CASE x.form = "empty" -> [r |-> "undefined"]
            [] x.form = "iso" ->
                 IF ValidYMD(x)
                 THEN [r |-> "iso",
                       iso |-> ShiftHours([y |-> x.y, mo |-> x.mo, d |-> x.d, hh |-> x.hh],
                                          0 - x.off)]
                 ELSE [r |-> "throw"]
            [] x.form = "date" ->
                 IF ValidYMD(x)
                 THEN [r |-> "iso", iso |-> [y |-> x.y, mo |-> x.mo, d |-> x.d, hh |-> 0]]
                 ELSE [r |-> "throw"]
            [] x.form = "space" ->
                 IF ValidYMD(x)
                 THEN [r |-> "iso", iso |-> [y |-> x.y, mo |-> x.mo, d |-> x.d, hh |-> x.hh]]
                 ELSE [r |-> "throw"]
            [] OTHER -> [r |-> "throw"]

\* a month string: two digit groups "YYYY-MM" (any digits), or other text
MonthStr(y, mo) == [t |-> "string", ym |-> [y |-> y, mo |-> mo]]
\* /^\d{4}-\d{2}$/.test(v)
IsYYYYMM(v) == v.t = "string" /\ "ym" \in DOMAIN v

\* date.slice(0, 7) of a raw date string
Slice7(dateLike) ==
  IF dateLike.dt.form \in {"date", "iso", "space"}
  THEN MonthStr(dateLike.dt.y, dateLike.dt.mo)
  ELSE JStr("")

\* iso.slice(0, 7) of a normalized date
IsoMonth(iso) == MonthStr(iso.y, iso.mo)

----------------------------------------------------------------------------
(* Facet text: a string whose characters matter (trim, emptiness). *)

JText(cs) == [t |-> "string", cs |-> cs]

RECURSIVE TrimLeft(_)
TrimLeft(cs) ==
  IF cs # <<>> /\ Head(cs) = " " THEN TrimLeft(Tail(cs)) ELSE cs
RECURSIVE TrimRight(_)
TrimRight(cs) ==
  IF cs # <<>> /\ cs[Len(cs)] = " " THEN TrimRight(SubSeq(cs, 1, Len(cs) - 1)) ELSE cs
\* String.prototype.trim
Trim(cs) == TrimRight(TrimLeft(cs))

\* (v ?? "").trim() of a facet value: the trimmed characters
TrimOrEmpty(v) == IF v.t = "string" /\ "cs" \in DOMAIN v THEN Trim(v.cs) ELSE <<>>

----------------------------------------------------------------------------
(* Reduce executor: pure helpers *)

\* x ?? []
ArrayOrEmpty(v) == IF v.t = "array" THEN v.a ELSE <<>>

RECURSIVE dedupeByStringify(_)
\* keeps the first occurrence of every value (JSON.stringify equality)
dedupeByStringify(arr) ==
  IF arr = <<>> THEN <<>>
  ELSE LET init == dedupeByStringify(SubSeq(arr, 1, Len(arr) - 1))
           last == arr[Len(arr)]
       IN IF \E k \in 1..Len(init) : init[k] = last THEN init ELSE Append(init, last)

RECURSIVE FlatField(_, _)
\* results.flatMap((chunk) => Array.isArray(chunk[field]) ? chunk[field] : [])
FlatField(results, field) ==
  IF results = <<>> THEN <<>>
  ELSE ArrayOrEmpty(Get(Head(results), field)) \o FlatField(Tail(results), field)

collectArrayFieldTyped(results, field) == dedupeByStringify(FlatField(results, field))

\* parseLLMJson: the parsed object, or {} for anything else
parseLLMJson(llmText) ==
  IF llmText.t = "object" THEN llmText ELSE JObj([x \in {} |-> Undefined])

\* Article["imageKind"]: the five kinds of the minutes, in Latin letters
\* (kaigiroku, mokuji, sakuin, furoku, tsuiroku)
ImageKinds ==
  {JStr("kaigiroku"), JStr("mokuji"), JStr("sakuin"), JStr("furoku"), JStr("tsuiroku")}

\* a ?? b
Coalesce(a, b) == IF a.t \in {"undefined", "null"} THEN b ELSE a

\* mutant: id and date of the generator's answer win over the meeting's
buildArticle_BaseFirst(base, chunkResults, msg) ==
  LET meeting == Get(msg, "meeting")
      date == Get(meeting, "date")
  IN [id |-> Coalesce(Get(base, "id"), Get(meeting, "issueID")),
      date |-> Coalesce(Get(base, "date"), date),
      month |-> Coalesce(Get(base, "month"), Slice7(date)),
      imageKind |-> Get(base, "imageKind"),
      session |-> Coalesce(Get(base, "session"), Get(meeting, "session")),
      nameOfHouse |-> Get(meeting, "nameOfHouse"),
      nameOfMeeting |-> Get(meeting, "nameOfMeeting"),
      categories |-> JArr(ArrayOrEmpty(Get(base, "categories"))),
      participants |->
        JArr(dedupeByStringify(ArrayOrEmpty(Get(base, "participants"))
                               \o collectArrayFieldTyped(chunkResults, "participants"))),
      keywords |->
        JArr(dedupeByStringify(ArrayOrEmpty(Get(base, "keywords"))
                               \o collectArrayFieldTyped(chunkResults, "keywords")))]

buildArticle(base, chunkResults, msg) ==
  LET meeting == Get(msg, "meeting")
      date == Get(meeting, "date")
  IN [id |-> Get(meeting, "issueID"),
      date |-> date,
      month |-> Coalesce(Get(base, "month"), Slice7(date)),
      imageKind |-> Get(base, "imageKind"),
      session |-> Coalesce(Get(base, "session"), Get(meeting, "session")),
      nameOfHouse |-> Get(meeting, "nameOfHouse"),
      nameOfMeeting |-> Get(meeting, "nameOfMeeting"),
      categories |-> JArr(ArrayOrEmpty(Get(base, "categories"))),
      participants |->
        JArr(dedupeByStringify(ArrayOrEmpty(Get(base, "participants"))
                               \o collectArrayFieldTyped(chunkResults, "participants"))),
      keywords |->
        JArr(dedupeByStringify(ArrayOrEmpty(Get(base, "keywords"))
                               \o collectArrayFieldTyped(chunkResults, "keywords")))]

----------------------------------------------------------------------------
(* Storage writer: keys and rows *)

DigitChar(d) == <<"0", "1", "2", "3", "4", "5", "6", "7", "8", "9">>[d + 1]

RECURSIVE Digits(_)
\* String(n) of a non-negative integer
Digits(n) == IF n < 10 THEN <<DigitChar(n)>> ELSE Append(Digits(n \div 10), DigitChar(n % 10))

\* String(v) / `${v}` as a sequence of characters (an opaque string is one character)
ToChars(v) ==
  CASE v.t = "string" /\ "cs" \in DOMAIN v -> v.cs
    [] v.t = "string" /\ "s" \in DOMAIN v -> <<v.s>>
    [] v.t = "number" /\ v.den = 1 /\ v.num >= 0 -> Digits(v.num)
    [] v.t = "number" /\ v.den = 1 /\ v.num < 0 -> <<"-">> \o Digits(-v.num)
    [] OTHER -> <<v.t>>

RECURSIVE PadStart(_, _, _)
PadStart(cs, n, c) == IF Len(cs) >= n THEN cs ELSE PadStart(<<c>> \o cs, n, c)

artPK(id) == <<"A", id>>
artSK == <<"META">>
catKey(c) == <<"CATEGORY", c>>
personKey(p) == <<"PERSON", p>>
kwKey(k) == <<"KEYWORD", k>>
kindKey(k) == <<"IMAGEKIND", ToChars(k)>>
sessionKey(s) == <<"SESSION", PadStart(ToChars(s), 4, "0")>>
houseKey(h) == <<"HOUSE", h>>
meetingKey(m) == <<"MEETING", m>>

\* "Y#<YYYY>#M#<MM>#D#<ISO-UTC>#A#<id>"
idxSK(monthYYYYMM, isoDate, id) ==
  <<"Y", monthYYYYMM.ym.y, "M", monthYYYYMM.ym.mo, "D", isoDate, "A", id>>

\* the part of storeData before its first write: normalized date and month
Normalize(art) ==
  LET r == toIsoUtc(art.date)
  IN IF r.r # "iso" THEN [ok |-> FALSE]
     ELSE LET m == Coalesce(art.month, IsoMonth(r.iso))
          IN IF IsYYYYMM(m) THEN [ok |-> TRUE, iso |-> r.iso, month |-> m]
             ELSE [ok |-> FALSE]

mainItem(art, n) ==
  [PK |-> artPK(art.id), SK |-> artSK, kind |-> "ARTICLE", articleId |-> art.id,
   date |-> n.iso, month |-> n.month]

ThinRow(pk, kind, art, n) ==
  [PK |-> pk, SK |-> idxSK(n.month, n.iso, art.id), kind |-> kind,
   articleId |-> art.id, date |-> n.iso, month |-> n.month]

RECURSIVE CategoryItems(_, _, _)
CategoryItems(cs, art, n) ==
  IF cs = <<>> THEN <<>>
  ELSE LET cat == TrimOrEmpty(Head(cs))
       IN (IF cat = <<>> THEN <<>> ELSE <<ThinRow(catKey(cat), "CATEGORY_INDEX", art, n)>>)
          \o CategoryItems(Tail(cs), art, n)

RECURSIVE PersonItems(_, _, _)
PersonItems(ps, art, n) ==
  IF ps = <<>> THEN <<>>
  ELSE LET name == TrimOrEmpty(Get(Head(ps), "name"))
       IN (IF name = <<>> THEN <<>> ELSE <<ThinRow(personKey(name), "PERSON_INDEX", art, n)>>)
          \o PersonItems(Tail(ps), art, n)

RECURSIVE KeywordItems(_, _, _)
KeywordItems(ks, art, n) ==
  IF ks = <<>> THEN <<>>
  ELSE LET kw == TrimOrEmpty(Get(Head(ks), "keyword"))
       IN (IF kw = <<>> THEN <<>>
           ELSE <<ThinRow(kwKey(kw), "KEYWORD_INDEX", art, n),
                  [PK |-> <<"KEYWORD_RECENT">>,
                   SK |-> <<"D", n.iso, "KW", kw, "A", art.id>>,
                   kind |-> "KEYWORD_OCCURRENCE", articleId |-> art.id,
                   date |-> n.iso, month |-> n.month]>>)
          \o KeywordItems(Tail(ks), art, n)

\* mutant: no row for the session
idxItems_NoSession(art, n) ==
  CategoryItems(ArrayOrEmpty(art.categories), art, n)
  \o PersonItems(ArrayOrEmpty(art.participants), art, n)
  \o KeywordItems(ArrayOrEmpty(art.keywords), art, n)
  \o <<ThinRow(kindKey(art.imageKind), "IMAGEKIND_INDEX", art, n)>>

\* idxItems of storeData, in the order the code pushes them
idxItems(art, n) ==
  CategoryItems(ArrayOrEmpty(art.categories), art, n)
  \o PersonItems(ArrayOrEmpty(art.participants), art, n)
  \o KeywordItems(ArrayOrEmpty(art.keywords), art, n)
  \o <<ThinRow(kindKey(art.imageKind), "IMAGEKIND_INDEX", art, n)>>
  \o <<ThinRow(sessionKey(art.session), "SESSION_INDEX", art, n)>>
  \o (IF TrimOrEmpty(art.nameOfHouse) # <<>>
      THEN <<ThinRow(houseKey(TrimOrEmpty(art.nameOfHouse)), "HOUSE_INDEX", art, n)>>
      ELSE <<>>)
  \o (IF TrimOrEmpty(art.nameOfMeeting) # <<>>
      THEN <<ThinRow(meetingKey(TrimOrEmpty(art.nameOfMeeting)), "MEETING_INDEX", art, n)>>
      ELSE <<>>)

\* mutant: a Put adds the row and keeps the one it had under the key
PutRow_KeepOld(tbl, row) == tbl \cup {row}

\* DynamoDB put: the row replaces any row with the same (PK, SK)
PutRow(tbl, row) == {r \in tbl : ~(r.PK = row.PK /\ r.SK = row.SK)} \cup {row}

RECURSIVE PutRows(_, _)
PutRows(tbl, rows) ==
  IF rows = <<>> THEN tbl ELSE PutRows(PutRow(tbl, Head(rows)), Tail(rows))

----------------------------------------------------------------------------
(* Queue ack/requeue protocol: pure parts *)

\* mutant: the copy is published with the attempt count unchanged
RequeuePayload_NoIncrement(msg) == msg

\* mutant: String(v) in place of JSON.stringify(v)
JSONstringify_ToString(v) == JStr("[object Object]")

RECURSIVE JSONstringify(_)
\* JSON.parse(JSON.stringify(v)): what a reader of the text gets.  A property
\* whose value is undefined is left out, undefined in an array and a number
\* that is not finite become null.
JSONstringify(v) ==
  CASE v.t = "object" ->
         JObj([f \in {g \in DOMAIN v.o : v.o[g].t # "undefined"} |-> JSONstringify(v.o[f])])
    [] v.t = "array" ->
         JArr([k \in 1..Len(v.a) |->
                 IF v.a[k].t = "undefined" THEN JNull ELSE JSONstringify(v.a[k])])
    [] v.t = "number" /\ v.den = 0 -> JNull
    [] OTHER -> v

\* JSON.stringify({...message, retryAttempts: message.retryAttempts + 1})
RequeuePayload(msg) ==
  JSONstringify(WithField(msg, "retryAttempts", JNum(Get(msg, "retryAttempts").num + 1)))

\* mutant: the delay is floored but not clamped
safeDelay_NoClamp(delaySeconds) == Floor(delaySeconds)

\* Math.min(MAX_SQS_DELAY_SECONDS, Math.max(0, Math.floor(delaySeconds)))
safeDelay(delaySeconds) == Min(MAX_SQS_DELAY_SECONDS, Max(0, Floor(delaySeconds)))

\* mutant: no default when the clamped delay is 0
VisibilityTimeout_NoDefault(sd) == sd

\* safeDelay || FIVE_MINUTES_SECONDS
VisibilityTimeout(sd) == IF sd # 0 THEN sd ELSE FIVE_MINUTES_SECONDS

\* the delaySeconds argument the executors pass to requeueWithDelay
\* pickRequeueDelaySeconds(delayMs): exported by sqsActions.ts
pickRequeueDelaySeconds(delayMs) ==
  IF delayMs.t = "undefined" THEN FIVE_MINUTES_SECONDS
  ELSE IF delayMs.den = 0 \/ delayMs.num < 0 THEN FIVE_MINUTES_SECONDS
  ELSE Min(MAX_SQS_DELAY_SECONDS, Max(0, RoundThousandth(delayMs)))

mapDelaySeconds(msg) == Get(msg, "retryMs_in")
reduceDelaySeconds(msg) == Get(msg, "retryMs_in")

(* Control flow.  Each operator gives the place the code goes to after the *)
(* call at `at` succeeded (ok) or threw: the next await, "return", "catch" *)
(* (the executor's catch block) or "throw" (out of the function).          *)

\* mutant: the original is deleted although SendMessage threw
requeueWithDelayNext_DeleteAnyway(at, ok) ==
  CASE at = "rq_send" -> "rq_delete"
    [] at = "rq_delete" /\ ok -> "return"
    [] at = "rq_delete" /\ ~ok -> "rq_vis"
    [] OTHER -> "throw"

\* mutant: no rethrow after the visibility fallback
requeueWithDelayNext_NoRethrow(at, ok) ==
  CASE at = "rq_send" /\ ok -> "rq_delete"
    [] at = "rq_send" /\ ~ok -> "rq_vis"
    [] at = "rq_delete" /\ ~ok -> "rq_vis"
    [] OTHER -> "return"

\* mutant: a failed DeleteMessage is swallowed
requeueWithDelayNext_SwallowDelete(at, ok) ==
  CASE at = "rq_send" /\ ok -> "rq_delete"
    [] at = "rq_send" /\ ~ok -> "rq_vis"
    [] at = "rq_delete" -> "return"
    [] OTHER -> "throw"

requeueWithDelayNext(at, ok) ==
  CASE at = "rq_send" /\ ok -> "rq_delete"
    [] at = "rq_send" /\ ~ok -> "rq_vis"
    [] at = "rq_delete" /\ ok -> "return"
    [] at = "rq_delete" /\ ~ok -> "rq_vis"
    [] OTHER -> "throw"

\* mutant: the message is deleted although the upload failed
processMapRecordNext_DeleteAnyway(at, ok) ==
  CASE at = "map_upload" -> "map_delete"
    [] ~ok -> "catch"
    [] at = "map_start" -> "map_fetch"
    [] at = "map_fetch" -> "map_gen"
    [] at = "map_gen" -> "map_upload"
    [] OTHER -> "return"

processMapRecordNext(at, ok) ==
  CASE ~ok -> "catch"
    [] at = "map_start" -> "map_fetch"
    [] at = "map_fetch" -> "map_gen"
    [] at = "map_gen" -> "map_upload"
    [] at = "map_upload" -> "map_delete"
    [] OTHER -> "return"

\* mutant: the result of the existence checks is ignored
processReduceRecordNext_IgnoreMissing(at, ok, missing) ==
  CASE ~ok -> "catch"
    [] at = "red_check" -> "red_load"
    [] at = "red_load" -> "red_gen"
    [] at = "red_gen" -> "sd_norm"
    [] at = "sd_done" -> "red_delete"
    [] OTHER -> "return"

\* `missing` is meaningful after the existence checks only
processReduceRecordNext(at, ok, missing) ==
  CASE ~ok -> "catch"
    [] at = "red_check" /\ missing -> "red_missing"
    [] at = "red_check" -> "red_load"
    [] at = "red_load" -> "red_gen"
    [] at = "red_gen" -> "sd_norm"
    [] at = "sd_done" -> "red_delete"
    [] OTHER -> "return"

\* mutant: the index rows are written before the primary row
storeDataNext_IndexFirst(at, ok, pending) ==
  CASE ~ok -> "sd_fail"
    [] at = "sd_norm" -> "sd_batch"
    [] at = "sd_batch" /\ pending -> "sd_batch"
    [] at = "sd_batch" -> "sd_put"
    [] OTHER -> "sd_done"

\* mutant: storeData returns after the primary row
storeDataNext_SkipIndex(at, ok, pending) ==
  CASE ~ok -> "sd_fail"
    [] at = "sd_norm" -> "sd_put"
    [] OTHER -> "sd_done"

\* storeData: the primary row first, then batchPutAll while rows are pending
storeDataNext(at, ok, pending) ==
  CASE ~ok -> "sd_fail"
    [] at = "sd_norm" -> "sd_put"
    [] at = "sd_put" /\ pending -> "sd_batch"
    [] at = "sd_batch" /\ pending -> "sd_batch"
    [] OTHER -> "sd_done"

\* the handler's dispatch after parsePromptTaskMessage
handlerNext(parsed) ==
  IF ~parsed.ok THEN "drop"
  ELSE IF Get(parsed.msg, "llm") \in {JStr("gemini"), JStr("fake")}
       THEN (IF Get(parsed.msg, "type") = JStr("map") THEN "map_start" ELSE "red_check")
       ELSE "drop_llm"

\* mutant: the handler continues whether or not the delete succeeded
dropNext_AlwaysContinue(at, ok) == "return"

\* after the deleteMessage of a dropped record: continue; a failed delete of an
\* unsupported-LLM record sits inside the try block and lands in the catch block,
\* which deletes again; a failed delete in the catch block leaves the handler
dropNext(at, ok) ==
  CASE ok -> "return"
    [] at = "drop_llm" -> "drop"
    [] OTHER -> "throw"

RECURSIVE SelectIdx(_, _, _)
\* the elements of s at the indices in S, in order
SelectIdx(s, S, k) ==
  IF k > Len(s) THEN <<>>
  ELSE (IF k \in S THEN <<s[k]>> ELSE <<>>) \o SelectIdx(s, S, k + 1)

\* items.slice(i, i + 25)
Window(its, at) == SubSeq(its, at + 1, Min(at + BatchLimit, Len(its)))

\* mutant: the whole window is put back when the store leaves rows unprocessed
batchPutAllStep_RequeueWindow(its, at, unp) ==
  IF Len(unp) > 0
  THEN [items |-> SubSeq(its, 1, at) \o Window(its, at) \o SubSeq(its, at + 1, Len(its)),
        i |-> at]
  ELSE [items |-> its, i |-> at + BatchLimit]

\* mutant: unprocessed rows are not sent again
batchPutAllStep_DropUnprocessed(its, at, unp) == [items |-> its, i |-> at + BatchLimit]

\* one turn of batchPutAll's loop after the store returned `unp` unprocessed:
\* items.splice(i, 0, ...retryItems), or i += 25
batchPutAllStep(its, at, unp) ==
  IF Len(unp) > 0
  THEN [items |-> SubSeq(its, 1, at) \o unp \o SubSeq(its, at + 1, Len(its)), i |-> at]
  ELSE [items |-> its, i |-> at + BatchLimit]

----------------------------------------------------------------------------
(* Inputs of the model *)

U(k) == JUri(Uri("s3", <<"b", "/", k>>))
Loc(k) == [bucket |-> <<"b">>, key |-> <<k>>]

MapBody(url, llm, attempts, ms) ==
  JObj([type |-> JStr("map"), url |-> url, result_url |-> U("c1"), llm |-> JStr(llm),
        llmModel |-> JStr("model"), retryAttempts |-> attempts, retryMs_in |-> ms])

Meeting(date) ==
  JObj([issueID |-> JStr("ISS-1"), nameOfMeeting |-> JText(<<"m">>),
        nameOfHouse |-> JText(<<" ">>), date |-> date, numberOfSpeeches |-> JNum(2)])

ReduceBody(urls, prompt, attempts, ms, date) ==
  JObj([type |-> JStr("reduce"), chunk_result_urls |-> JArr(urls), prompt |-> prompt,
        issueID |-> JStr("ISS-1"), meeting |-> Meeting(date), llm |-> JStr("gemini"),
        llmModel |-> JStr("model"), retryAttempts |-> attempts, retryMs_in |-> ms])

Day1 == JDate(DateStr("date", 2024, 4, 1, 0, 0))

\* event.Records bodies of the invocations explored
SampleEvents ==
  { <<Garbage, MapBody(U("src"), "fake", JNum(0), JNum(120))>>,
    <<JObj([type |-> JStr("chunk")]),
      ReduceBody(<<U("c1")>>, Undefined, JNum(0), JNum(120), Day1),
      JNull>>,
    <<MapBody(U("src"), "gemini", JNum(1), JNum(0)),
      ReduceBody(<<U("c1"), U("c2")>>, JStr("Summarize"), JNum(0), JNum(120), Day1)>>,
    <<ReduceBody(<<U("c2"), U("c1"), U("c2")>>, JStr("Summarize"), JStr("1"),
                 JFrac(2401, 2), Day1)>>,
    <<MapBody(U("src"), "openai", JNum(0), JNum(120)),
      MapBody(JUri(Uri("s3", <<"b">>)), "gemini", JNum(2), JNum(5))>>,
    <<ReduceBody(<<U("c2")>>, JStr("Summarize"), JNum(3), JNum(0),
                 JDate(DateStr("garbage", 0, 0, 0, 0, 0)))>>,
    <<MapBody(JUri(Uri("s3", <<"b">>)), "fake", JNum(5), JNum(1000))>> }

SourceText == [t |-> "text"]
\* one participant as two generator answers may write it
PersonNameFirst ==
  JObjOrdered(<<"name", "position">>, [name |-> JText(<<"b">>), position |-> JText(<<"p">>)])
PersonPositionFirst ==
  JObjOrdered(<<"position", "name">>, [name |-> JText(<<"b">>), position |-> JText(<<"p">>)])
ChunkA ==
  JObj([middleSummary |-> JStr("summary A"),
        participants |-> JArr(<<JObj([name |-> JText(<<"a">>)]), PersonNameFirst>>)])
ChunkB == JObj([keywords |-> JArr(<<JObj([keyword |-> JText(<<"k">>)])>>)])

\* blob store contents at the start of the invocation
InitBlobs ==
  { [l \in {Loc("src")} |-> SourceText],
    [l \in {Loc("src"), Loc("c2")} |-> IF l = Loc("src") THEN SourceText ELSE ChunkB],
    [l \in {Loc("src"), Loc("c1"), Loc("c2")} |->
       IF l = Loc("src") THEN SourceText ELSE IF l = Loc("c1") THEN ChunkA ELSE ChunkB] }

\* what the generation service may answer
\* the string that is the JSON text of v
JsonText(v) == [t |-> "string", json |-> v]
\* LlmGenerateResponse of the map call: the chunk's JSON in text
MapOutput == JObj([text |-> JsonText(ChunkA), raw |-> JNull])
GenOutputs ==
  { [t |-> "text"],
    JObj([imageKind |-> JStr("kaigiroku"), session |-> JNum(5),
          categories |-> JArr(<<JText(<<" ", "c">>)>>)]),
    JObj([imageKind |-> JStr("kaigiroku"), session |-> JNum(5), month |-> JStr("April")]),
    JObj([imageKind |-> JStr("zasshi"), session |-> JNum(-1)]),
    JObj([imageKind |-> JStr("kaigiroku"), session |-> JNum(5),
          id |-> JStr("LLM-9"), date |-> JDate(DateStr("date", 2023, 12, 31, 0, 0)),
          participants |-> JArr(<<PersonPositionFirst, JObj([name |-> JText(<<"a">>)])>>),
          keywords |-> JArr(<<JObj([keyword |-> JText(<<"k">>)])>>)]) }

\* Articles handed directly to storeData (writer specification)
Art(id, date, month, cats, people, kws, house) ==
  [id |-> JStr(id), date |-> date, month |-> month, imageKind |-> JStr("kaigiroku"),
   session |-> JNum(12), nameOfHouse |-> house, nameOfMeeting |-> JText(<<"m">>),
   categories |-> JArr(cats), participants |-> JArr(people), keywords |-> JArr(kws)]

SampleArticles ==
  { Art("a1", Day1, MonthStr(2024, 4), <<JText(<<"c">>), JText(<<" ">>)>>,
        <<JObj([name |-> JText(<<"a">>)])>>, <<JObj([keyword |-> JText(<<"k">>)])>>,
        JText(<<"h">>)),
    Art("a1", JDate(DateStr("iso", 2024, 1, 31, 16, -9)), MonthStr(2024, 1),
        <<JText(<<"d">>)>>, <<>>, <<>>, JText(<<>>)),
    Art("a2", JDate(DateStr("space", 2024, 4, 1, 10, 0)), Undefined, <<>>, <<>>, <<>>,
        JText(<<"h">>)),
    Art("a2", JDate(DateStr("empty", 0, 0, 0, 0, 0)), MonthStr(2024, 4), <<>>, <<>>, <<>>,
        JText(<<"h">>)),
    Art("a1", Day1, JStr("April"), <<>>, <<>>, <<>>, JText(<<"h">>)),
    Art("a2", JDate(DateStr("date", 2024, 2, 1, 0, 0)), Undefined, <<>>, <<>>, <<>>,
        JText(<<>>)),
    Art("a1", JDate(DateStr("garbage", 0, 0, 0, 0, 0)), MonthStr(2024, 4),
        <<JText(<<"c">>)>>, <<>>, <<>>, JText(<<"h">>)),
    Art("a1", Undefined, MonthStr(2024, 4), <<JText(<<"c">>)>>, <<>>, <<>>,
        JText(<<"h">>)) }

----------------------------------------------------------------------------
(* State machine *)

NoFrame == [site |-> "none", call |-> 0]

\* storeData called directly (writer specification), not by the reduce executor
Direct == records = <<>>

\* one entry of the call history
Entry(op, ok, arg) ==
  [op |-> op, rec |-> cur, ok |-> ok, site |-> pc, call |-> rq.call, arg |-> arg]

TypeOfMessage == Get(message, "type")

\* the delaySeconds argument of the requeueWithDelay call in progress
DelayArg ==
  IF TypeOfMessage = JStr("map") THEN mapDelaySeconds(message)
  ELSE reduceDelaySeconds(message)

\* MessageId of the next message SendMessage creates
NewMid ==
  Len(records) + Cardinality({k \in 1..Len(log) : log[k].op = "Send" /\ log[k].ok}) + 1

EnterRequeue(site) ==
  /\ cur' = cur
  /\ pc' = "rq_send"
  /\ rq' = [site |-> site, call |-> rq.call + 1]

\* transfer of control to `target` (see the ...Next operators)
Goto(target) ==
  CASE target = "return" ->
         /\ cur' = cur + 1
         /\ pc' = IF cur + 1 > Len(records) THEN "done" ELSE "parse"
         /\ rq' = NoFrame
    [] target = "catch" -> EnterRequeue("catch")
    [] target = "red_missing" -> EnterRequeue("missing")
    [] target = "throw" ->
         \* an error thrown by handleMissingPrerequisites's requeue is caught by
         \* processReduceRecord; any other leaves the handler
         IF rq.site = "missing" THEN EnterRequeue("catch")
         ELSE cur' = cur /\ pc' = "failed" /\ rq' = rq
    [] target = "sd_fail" ->
         IF Direct THEN cur' = cur /\ pc' = "st_failed" /\ rq' = rq
         ELSE EnterRequeue("catch")
    [] target = "sd_done" ->
         /\ cur' = cur
         /\ pc' = IF Direct THEN "st_done" ELSE processReduceRecordNext("sd_done", TRUE, FALSE)
         /\ rq' = rq
    [] OTHER -> cur' = cur /\ pc' = target /\ rq' = rq

\* the call recorded by the entry failed: it threw, HeadObject did not find a
\* blob that exists, or the table left rows unprocessed
Faulty(e) ==
  \/ ~e.ok
  \/ /\ e.op = "Head"
     /\ e.arg.exists # "true"
     /\ Locator(parseS3Uri(e.arg.uri)) \in DOMAIN blobs
  \/ e.op = "BatchWrite" /\ e.arg.accepted # e.arg.sent

\* where failures are bounded, the failed calls of the step are counted (a
\* generator answer storeData cannot normalize counts as one)
Account ==
  IF faults.on
  THEN LET failed == {j \in (Len(log) + 1)..Len(log') : Faulty(log'[j])}
           unusable == /\ pc = "red_gen"
                       /\ log'[Len(log')].ok
                       /\ ~Normalize(article').ok
           n == faults.n + Cardinality(failed) + (IF unusable THEN 1 ELSE 0)
       IN /\ n <= MaxFaults
          /\ faults' = [faults EXCEPT !.n = n]
  ELSE faults' = faults

\* handler: parse the record and dispatch it
Parse ==
  /\ pc = "parse"
  /\ LET parsed == parsePromptTaskMessage(records[cur].body)
     IN /\ message' = (IF parsed.ok THEN parsed.msg ELSE Undefined)
        /\ Goto(handlerNext(parsed))
  /\ UNCHANGED <<queue, records, blobs, table, article, items, i, rejects, stores,
                 chunks, result, log>>
  /\ UNCHANGED <<codecVars, limiterVars, policyVars, twinVars>>
  /\ Account

\* deleteMessage on the current record's receipt handle
DeleteCurrent(ok) == IF ok THEN queue \ {records[cur]} ELSE queue

\* handler: the catch block drops a record
Drop ==
  /\ pc = "drop"
  /\ \E ok \in BOOLEAN :
       /\ queue' = DeleteCurrent(ok)
       /\ log' = Append(log, Entry("Delete", ok, 0))
       /\ Goto(dropNext("drop", ok))
  /\ UNCHANGED <<records, message, blobs, table, article, items, i, rejects, stores,
                 chunks, result>>
  /\ UNCHANGED <<codecVars, limiterVars, policyVars, twinVars>>
  /\ Account

\* handler: drop a record that names an unknown or unsupported LLM
DropUnsupported ==
  /\ pc = "drop_llm"
  /\ \E ok \in BOOLEAN :
       /\ queue' = DeleteCurrent(ok)
       /\ log' = Append(log, Entry("Delete", ok, 0))
       /\ Goto(dropNext("drop_llm", ok))
  /\ UNCHANGED <<records, message, blobs, table, article, items, i, rejects, stores,
                 chunks, result>>
  /\ UNCHANGED <<codecVars, limiterVars, policyVars, twinVars>>
  /\ Account

(* ---- processMapRecord ---- *)

MapStart ==
  /\ pc = "map_start"
  /\ Goto(processMapRecordNext("map_start", parseS3Uri(Get(message, "url")).ok))
  /\ UNCHANGED <<queue, records, message, blobs, table, article, items, i, rejects,
                 stores, chunks, result, log>>
  /\ UNCHANGED <<codecVars, limiterVars, policyVars, twinVars>>
  /\ Account

MapFetch ==
  /\ pc = "map_fetch"
  /\ \E ok \in BOOLEAN :
       /\ ok => Locator(parseS3Uri(Get(message, "url"))) \in DOMAIN blobs
       /\ log' = Append(log, Entry("Get", ok, 0))
       /\ Goto(processMapRecordNext("map_fetch", ok))
  /\ UNCHANGED <<queue, records, message, blobs, table, article, items, i, rejects,
                 stores, chunks, result>>
  /\ UNCHANGED <<codecVars, limiterVars, policyVars, twinVars>>
  /\ Account

MapGenerate ==
  /\ pc = "map_gen"
  /\ \E ok \in BOOLEAN :
       /\ result' = (IF ok THEN MapOutput ELSE result)
       /\ log' = Append(log, Entry("Generate", ok, 0))
       /\ Goto(IF ok /\ ~parseS3Uri(Get(message, "result_url")).ok
               THEN processMapRecordNext("map_gen", FALSE)
               ELSE processMapRecordNext("map_gen", ok))
  /\ UNCHANGED <<queue, records, message, blobs, table, article, items, i, rejects,
                 stores, chunks>>
  /\ UNCHANGED <<codecVars, limiterVars, policyVars, twinVars>>
  /\ Account

MapUpload ==
  /\ pc = "map_upload"
  /\ \E ok \in BOOLEAN :
       LET loc == Locator(parseS3Uri(Get(message, "result_url")))
       IN /\ blobs' = (IF ok
                       THEN [l \in DOMAIN blobs \cup {loc} |->
                               IF l = loc THEN result ELSE blobs[l]]
                       ELSE blobs)
          /\ log' = Append(log, Entry("PutObject", ok, 0))
          /\ Goto(processMapRecordNext("map_upload", ok))
  /\ UNCHANGED <<queue, records, message, table, article, items, i, rejects, stores,
                 chunks, result>>
  /\ UNCHANGED <<codecVars, limiterVars, policyVars, twinVars>>
  /\ Account

MapDelete ==
  /\ pc = "map_delete"
  /\ \E ok \in BOOLEAN :
       /\ queue' = DeleteCurrent(ok)
       /\ log' = Append(log, Entry("Delete", ok, 0))
       /\ Goto(processMapRecordNext("map_delete", ok))
  /\ UNCHANGED <<records, message, blobs, table, article, items, i, rejects, stores,
                 chunks, result>>
  /\ UNCHANGED <<codecVars, limiterVars, policyVars, twinVars>>
  /\ Account

(* ---- requeueWithDelay ---- *)

RqSend ==
  /\ pc = "rq_send"
  /\ \E ok \in BOOLEAN :
       LET payload == RequeuePayload(message)
       IN /\ queue' = (IF ok
                       THEN queue \cup {[mid |-> NewMid, task |-> records[cur].task,
                                         body |-> payload]}
                       ELSE queue)
          /\ log' = Append(log, Entry("Send", ok,
                                      [body |-> payload, delaySeconds |-> DelayArg,
                                       delay |-> safeDelay(DelayArg)]))
          /\ Goto(requeueWithDelayNext("rq_send", ok))
  /\ UNCHANGED <<records, message, blobs, table, article, items, i, rejects, stores,
                 chunks, result>>
  /\ UNCHANGED <<codecVars, limiterVars, policyVars, twinVars>>
  /\ Account

RqDelete ==
  /\ pc = "rq_delete"
  /\ \E ok \in BOOLEAN :
       /\ queue' = DeleteCurrent(ok)
       /\ log' = Append(log, Entry("Delete", ok, 0))
       /\ Goto(requeueWithDelayNext("rq_delete", ok))
  /\ UNCHANGED <<records, message, blobs, table, article, items, i, rejects, stores,
                 chunks, result>>
  /\ UNCHANGED <<codecVars, limiterVars, policyVars, twinVars>>
  /\ Account

RqVisibility ==
  /\ pc = "rq_vis"
  /\ \E ok \in BOOLEAN :
       /\ log' = Append(log, Entry("ChangeVisibility", ok,
                                   VisibilityTimeout(safeDelay(DelayArg))))
       /\ Goto(requeueWithDelayNext("rq_vis", ok))
  /\ UNCHANGED <<queue, records, message, blobs, table, article, items, i, rejects,
                 stores, chunks, result>>
  /\ UNCHANGED <<codecVars, limiterVars, policyVars, twinVars>>
  /\ Account

(* ---- processReduceRecord ---- *)

\* Array.from(new Set(message.chunk_result_urls))
referencedUris == dedupeByStringify(Get(message, "chunk_result_urls").a)

RECURSIVE HeadEntries(_, _, _)
\* the HeadObject calls findMissingObjects issues (none for a URI parseS3Uri rejects)
HeadEntries(uris, out, k) ==
  IF k > Len(uris) THEN <<>>
  ELSE (IF parseS3Uri(uris[k]).ok
        THEN <<Entry("Head", out[k] # "throw", [uri |-> uris[k], exists |-> out[k]])>>
        ELSE <<>>)
       \o HeadEntries(uris, out, k + 1)

\* findMissingObjects: every URI is checked (Promise.all); ensureObjectExists
\* answers true, false (404, 403) or throws
RedCheck ==
  /\ pc = "red_check"
  /\ \E out \in [1..Len(referencedUris) -> {"true", "false", "throw"}] :
       /\ \A k \in 1..Len(referencedUris) :
            LET p == parseS3Uri(referencedUris[k])
            IN /\ ~p.ok => out[k] = "throw"
               /\ (p.ok /\ out[k] = "true") => Locator(p) \in DOMAIN blobs
       /\ log' = log \o HeadEntries(referencedUris, out, 1)
       /\ Goto(processReduceRecordNext("red_check",
                                       \A k \in 1..Len(referencedUris) : out[k] # "throw",
                                       \E k \in 1..Len(referencedUris) : out[k] = "false"))
  /\ UNCHANGED <<queue, records, message, blobs, table, article, items, i, rejects,
                 stores, chunks, result>>
  /\ UNCHANGED <<codecVars, limiterVars, policyVars, twinVars>>
  /\ Account

\* loadChunkResults: fetchJsonObject of every referenced URI
RedLoad ==
  /\ pc = "red_load"
  /\ \E ok \in BOOLEAN :
       /\ ok => \A k \in 1..Len(referencedUris) :
                  /\ Locator(parseS3Uri(referencedUris[k])) \in DOMAIN blobs
                  /\ blobs[Locator(parseS3Uri(referencedUris[k]))].t # "text"
       /\ chunks' = (IF ok
                     THEN [k \in 1..Len(referencedUris) |->
                             blobs[Locator(parseS3Uri(referencedUris[k]))]]
                     ELSE chunks)
       /\ log' = Append(log, Entry("Get", ok, 0))
       /\ Goto(processReduceRecordNext("red_load", ok, FALSE))
  /\ UNCHANGED <<queue, records, message, blobs, table, article, items, i, rejects,
                 stores, result>>
  /\ UNCHANGED <<codecVars, limiterVars, policyVars, twinVars>>
  /\ Account

\* callLLM, then parseLLMJson and buildArticle
RedGenerate ==
  /\ pc = "red_gen"
  /\ \E ok \in BOOLEAN, out \in GenOutputs :
       /\ ~ok => out = [t |-> "text"]
       /\ article' = (IF ok THEN buildArticle(parseLLMJson(out), chunks, message)
                      ELSE article)
       /\ log' = Append(log, Entry("Generate", ok, out))
       /\ Goto(processReduceRecordNext("red_gen", ok, FALSE))
  /\ UNCHANGED <<queue, records, message, blobs, table, items, i, rejects, stores,
                 chunks, result>>
  /\ UNCHANGED <<codecVars, limiterVars, policyVars, twinVars>>
  /\ Account

RedDelete ==
  /\ pc = "red_delete"
  /\ \E ok \in BOOLEAN :
       /\ queue' = DeleteCurrent(ok)
       /\ log' = Append(log, Entry("Delete", ok, 0))
       /\ Goto(processReduceRecordNext("red_delete", ok, FALSE))
  /\ UNCHANGED <<records, message, blobs, table, article, items, i, rejects, stores,
                 chunks, result>>
  /\ UNCHANGED <<codecVars, limiterVars, policyVars, twinVars>>
  /\ Account

(* ---- storeData ---- *)

\* date and month normalization, and the rows to write
StoreNormalize ==
  /\ pc = "sd_norm"
  /\ LET n == Normalize(article)
     IN /\ items' = (IF n.ok THEN idxItems(article, n) ELSE <<>>)
        /\ i' = 0
        /\ Goto(storeDataNext("sd_norm", n.ok, TRUE))
  /\ UNCHANGED <<queue, records, message, blobs, table, article, rejects, stores,
                 chunks, result, log>>
  /\ UNCHANGED <<codecVars, limiterVars, policyVars, twinVars>>
  /\ Account

\* doc.send(new PutCommand({ Item: mainItem }))
StorePutMain ==
  /\ pc = "sd_put"
  /\ \E ok \in BOOLEAN :
       /\ table' = (IF ok THEN PutRow(table, mainItem(article, Normalize(article)))
                    ELSE table)
       /\ log' = Append(log, Entry("Put", ok, 0))
       /\ Goto(storeDataNext("sd_put", ok, Len(items) > 0))
  /\ UNCHANGED <<queue, records, message, blobs, article, items, i, rejects, stores,
                 chunks, result>>
  /\ UNCHANGED <<codecVars, limiterVars, policyVars, twinVars>>
  /\ Account

\* one BatchWriteCommand of batchPutAll: it throws, or the store takes the rows
\* of the window except the unprocessed ones (those at the indices S)
StoreBatch ==
  /\ pc = "sd_batch"
  /\ LET slice == Window(items, i)
     IN \E ok \in BOOLEAN, S \in SUBSET (1..Len(slice)) :
          /\ ~ok => S = {}
          /\ S # {} => rejects < MaxRejects
          /\ LET unp == SelectIdx(slice, S, 1)
                 acc == SelectIdx(slice, (1..Len(slice)) \ S, 1)
                 st == IF ok THEN batchPutAllStep(items, i, unp)
                       ELSE [items |-> items, i |-> i]
             IN /\ table' = (IF ok THEN PutRows(table, acc) ELSE table)
                /\ items' = st.items
                /\ i' = st.i
                /\ rejects' = (IF S # {} THEN rejects + 1 ELSE rejects)
                /\ log' = Append(log, Entry("BatchWrite", ok,
                                            [sent |-> slice, accepted |-> IF ok THEN acc ELSE <<>>]))
                /\ Goto(storeDataNext("sd_batch", ok, st.i < Len(st.items)))
  /\ UNCHANGED <<queue, records, message, blobs, article, stores, chunks, result>>
  /\ UNCHANGED <<codecVars, limiterVars, policyVars, twinVars>>
  /\ Account

\* a caller hands an Article to storeData (writer specification)
StoreBegin ==
  /\ pc \in {"st_idle", "st_done", "st_failed"}
  /\ stores < MaxStores
  /\ \E art \in SampleArticles :
       /\ article' = art
       /\ pc' = "sd_norm"
       /\ stores' = stores + 1
       /\ items' = <<>>
       /\ i' = 0
       /\ log' = <<>>
  /\ UNCHANGED <<queue, records, cur, message, rq, blobs, table, rejects, chunks, result>>
  /\ UNCHANGED <<codecVars, limiterVars, policyVars, twinVars, liveVars>>

\* no codec run and no limiter in the handler and writer specifications
NoCodec == [at |-> "none"]
LimiterUnused ==
  /\ limiter = [capacity |-> 0]
  /\ now = 0
  /\ acquire = <<>>

----------------------------------------------------------------------------
(* Specifications *)

\* one invocation of the Lambda handler on an event
Init ==
  \E ev \in SampleEvents, bl \in InitBlobs :
    /\ records = [k \in 1..Len(ev) |-> [mid |-> k, task |-> k, body |-> ev[k]]]
    /\ queue = {[mid |-> k, task |-> k, body |-> ev[k]] : k \in 1..Len(ev)}
    /\ cur = 1
    /\ pc = "parse"
    /\ message = Undefined
    /\ rq = NoFrame
    /\ blobs = bl
    /\ table = {}
    /\ article = Undefined
    /\ items = <<>>
    /\ i = 0
    /\ rejects = 0
    /\ stores = 0
    /\ chunks = <<>>
    /\ result = Undefined
    /\ log = <<>>
    /\ codec = NoCodec
    /\ LimiterUnused
    /\ policy = [at |-> "none"]
    /\ twin = [at |-> "off"]
    /\ faults = [on |-> FALSE]

Next ==
  \/ Parse \/ Drop \/ DropUnsupported
  \/ MapStart \/ MapFetch \/ MapGenerate \/ MapUpload \/ MapDelete
  \/ RedCheck \/ RedLoad \/ RedGenerate \/ RedDelete
  \/ StoreNormalize \/ StorePutMain \/ StoreBatch
  \/ RqSend \/ RqDelete \/ RqVisibility

Spec == Init /\ [][Next]_vars

\* storeData called on a sequence of Articles
InitStore ==
  /\ records = <<>>
  /\ queue = {}
  /\ cur = 0
  /\ pc = "st_idle"
  /\ message = Undefined
  /\ rq = NoFrame
  /\ blobs = <<>>
  /\ table = {}
  /\ article = Undefined
  /\ items = <<>>
  /\ i = 0
  /\ rejects = 0
  /\ stores = 0
  /\ chunks = <<>>
  /\ result = Undefined
  /\ log = <<>>
  /\ codec = NoCodec
  /\ LimiterUnused
  /\ policy = [at |-> "none"]
  /\ twin = [at |-> "off"]
  /\ faults = [on |-> FALSE]

NextStore == StoreBegin \/ StoreNormalize \/ StorePutMain \/ StoreBatch

SpecStore == InitStore /\ [][NextStore]_vars

\* storeData with its loop running on: every await of batchPutAll resolves
SpecStoreFair == InitStore /\ [][NextStore]_vars /\ WF_vars(StoreBatch)

\* the same task delivered twice: storeData runs on the same Article in two
\* invocations, each at its own pace, against the same table
InitStoreTwice ==
  /\ records = <<>>
  /\ queue = {}
  /\ cur = 0
  /\ pc = "st_idle"
  /\ message = Undefined
  /\ rq = NoFrame
  /\ blobs = <<>>
  /\ table = {}
  /\ article = Undefined
  /\ items = <<>>
  /\ i = 0
  /\ rejects = 0
  /\ stores = 0
  /\ chunks = <<>>
  /\ result = Undefined
  /\ log = <<>>
  /\ codec = NoCodec
  /\ LimiterUnused
  /\ policy = [at |-> "none"]
  /\ twin = [at |-> "sd_done"]
  /\ faults = [on |-> FALSE]

\* both deliveries build the same Article (same blobs, same generator output)
\* and enter storeData: two storeData calls are started. The Articles are the
\* versions of one meeting's Record.
StoreBeginTwice ==
  /\ pc \in {"st_idle", "st_done", "st_failed"}
  /\ twin.at \in {"sd_done", "sd_fail"}
  /\ stores <= MaxStores
  /\ \E art \in {a \in SampleArticles : a.id = JStr("a1")} :
       /\ article' = art
       /\ pc' = "sd_norm"
       /\ stores' = stores + 2
       /\ items' = <<>>
       /\ i' = 0
       /\ log' = <<>>
       /\ twin' = [at |-> "sd_norm", before |-> table, items |-> <<>>, i |-> 0]
  /\ UNCHANGED <<queue, records, cur, message, rq, blobs, table, rejects, chunks, result>>
  /\ UNCHANGED <<codecVars, limiterVars, policyVars, liveVars>>

\* storeData of the second delivery: normalization and the rows to write
TwinNormalize ==
  /\ twin.at = "sd_norm"
  /\ LET n == Normalize(article)
     IN twin' = [twin EXCEPT !.at = storeDataNext("sd_norm", n.ok, TRUE),
                             !.items = IF n.ok THEN idxItems(article, n) ELSE <<>>]
  /\ UNCHANGED <<handlerVars, codecVars, limiterVars, policyVars, liveVars>>

\* storeData of the second delivery: the PutCommand of the primary row
TwinPutMain ==
  /\ twin.at = "sd_put"
  /\ \E ok \in BOOLEAN :
       /\ table' = (IF ok THEN PutRow(table, mainItem(article, Normalize(article)))
                    ELSE table)
       /\ twin' = [twin EXCEPT !.at = storeDataNext("sd_put", ok, Len(twin.items) > 0)]
  /\ UNCHANGED <<queue, records, cur, pc, message, rq, blobs, article, items, i, rejects,
                 stores, chunks, result, log>>
  /\ UNCHANGED <<codecVars, limiterVars, policyVars, liveVars>>

\* storeData of the second delivery: one BatchWriteCommand of batchPutAll
TwinBatch ==
  /\ twin.at = "sd_batch"
  /\ LET slice == Window(twin.items, twin.i)
     IN \E ok \in BOOLEAN, S \in SUBSET (1..Len(slice)) :
          /\ ~ok => S = {}
          /\ S # {} => rejects < MaxRejects
          /\ LET unp == SelectIdx(slice, S, 1)
                 acc == SelectIdx(slice, (1..Len(slice)) \ S, 1)
                 st == IF ok THEN batchPutAllStep(twin.items, twin.i, unp)
                       ELSE [items |-> twin.items, i |-> twin.i]
             IN /\ table' = (IF ok THEN PutRows(table, acc) ELSE table)
                /\ rejects' = (IF S # {} THEN rejects + 1 ELSE rejects)
                /\ twin' = [twin EXCEPT !.items = st.items, !.i = st.i,
                                        !.at = storeDataNext("sd_batch", ok,
                                                             st.i < Len(st.items))]
  /\ UNCHANGED <<queue, records, cur, pc, message, rq, blobs, article, items, i, stores,
                 chunks, result, log>>
  /\ UNCHANGED <<codecVars, limiterVars, policyVars, liveVars>>

NextStoreTwice ==
  \/ StoreBeginTwice \/ StoreNormalize \/ StorePutMain \/ StoreBatch
  \/ TwinNormalize \/ TwinPutMain \/ TwinBatch

SpecStoreTwice == InitStoreTwice /\ [][NextStoreTwice]_vars

\* a reduce job on the queue: the map task that writes c1 and the reduce task
\* that reads it; no invocation is running
InitLive ==
  \E llm \in {"gemini", "fake"} :
    /\ queue = {[mid |-> 1, task |-> 1, body |-> MapBody(U("src"), llm, JNum(0), JNum(0))],
                [mid |-> 2, task |-> 2,
                 body |-> ReduceBody(<<U("c1")>>, JStr("Summarize"), JNum(0), JNum(120),
                                     Day1)]}
    /\ records = <<>>
    /\ cur = 0
    /\ pc = "done"
    /\ message = Undefined
    /\ rq = NoFrame
    /\ blobs = [l \in {Loc("src")} |-> SourceText]
    /\ table = {}
    /\ article = Undefined
    /\ items = <<>>
    /\ i = 0
    /\ rejects = 0
    /\ stores = 0
    /\ chunks = <<>>
    /\ result = Undefined
    /\ log = <<>>
    /\ codec = NoCodec
    /\ LimiterUnused
    /\ policy = [at |-> "none"]
    /\ twin = [at |-> "off"]
    /\ faults = [on |-> TRUE, n |-> 0]

\* the Record of the job is in the table and the reduce message of the
\* invocation that wrote it has been deleted
Completed ==
  /\ \E r \in table : r.kind = "ARTICLE" /\ r.articleId = JStr("ISS-1")
  /\ \E j \in 1..Len(log) :
       /\ log[j].op = "Delete" /\ log[j].ok /\ log[j].site = "red_delete"
       /\ records[log[j].rec].task = 2

\* the queue hands one of its messages to a new invocation of the handler
\* (deliveries are followed until the job has completed; the reduce task is
\* delivered ahead of the map task's blob while it has fewer than MaxRequeues
\* attempts)
Deliver ==
  /\ pc \in {"done", "failed"}
  /\ ~Completed
  /\ \E m \in queue :
       /\ (m.task = 2 /\ Loc("c1") \notin DOMAIN blobs) =>
            Get(m.body, "retryAttempts").num < MaxRequeues
       /\ records' = <<m>>
  /\ cur' = 1
  /\ pc' = "parse"
  /\ message' = Undefined
  /\ rq' = NoFrame
  /\ log' = <<>>
  /\ article' = Undefined
  /\ items' = <<>>
  /\ i' = 0
  /\ chunks' = <<>>
  /\ result' = Undefined
  /\ UNCHANGED <<queue, blobs, table, rejects, stores>>
  /\ UNCHANGED <<codecVars, limiterVars, policyVars, twinVars, liveVars>>

NextLive ==
  \/ Deliver \/ Parse
  \/ MapStart \/ MapFetch \/ MapGenerate \/ MapUpload \/ MapDelete
  \/ RedCheck \/ RedLoad \/ RedGenerate \/ RedDelete
  \/ StoreNormalize \/ StorePutMain \/ StoreBatch
  \/ RqSend \/ RqDelete \/ RqVisibility

\* the handler keeps running and the queue keeps delivering; at most MaxFaults
\* calls fail, so every call eventually succeeds
SpecLive == InitLive /\ [][NextLive]_vars /\ WF_vars(NextLive)

----------------------------------------------------------------------------
(* Task Message Codec on its own: a payload is decoded, the task encoded   *)
(* (as a producer or as requeueWithDelay encodes it) and decoded again.    *)

\* the payload without the property f
Without(body, f) == JObj([g \in DOMAIN body.o \ {f} |-> body.o[g]])
SetField(body, f, v) == IF v = Undefined THEN Without(body, f) ELSE WithField(body, f, v)

MapBase ==
  WithField(MapBody(U("src"), "gemini", JNum(0), JNum(120)), "meta",
            JObj([fixture |-> JTrue]))
ReduceBase ==
  ReduceBody(<<U("c1"), U("c2")>>, JStr("Summarize"), JNum(0), JNum(120), Day1)

\* values of the discriminant, the attempt count and the delay hint (Undefined: absent)
TypeValues == {JStr("map"), JStr("reduce"), JStr("chunk"), Undefined, JArr(<<JStr("map")>>)}
AttemptValues ==
  {Undefined, JNull, JTrue, JNum(0), JNum(2), JNum(-1), JFrac(5, 2), JFrac(-1, 2),
   JFrac(1, 0), JStr("2"), JStr("-1"), JStr("x"), JArr(<<>>), JObj([k |-> JNull])}
DelayValues ==
  {Undefined, JNum(0), JNum(120), JNum(-5), JFrac(2401, 2), JFrac(1, 0), JStr("5")}
\* what a required field may hold in a malformed payload
FieldFaults == {Undefined, JNull, JNum(7), JStr(""), JStr("x"), JObj([k |-> JNull])}

CodecBodies ==
  {SetField(SetField(SetField(b, "type", ty), "retryAttempts", a), "retryMs_in", ms) :
     b \in {MapBase, ReduceBase}, ty \in TypeValues, a \in AttemptValues, ms \in DelayValues}
  \cup {SetField(MapBase, f, v) :
          f \in {"url", "result_url", "llm", "llmModel", "meta"}, v \in FieldFaults}
  \cup {SetField(ReduceBase, f, v) :
          f \in {"chunk_result_urls", "prompt", "issueID", "meeting", "llm", "llmModel", "meta"},
          v \in FieldFaults}
  \cup {SetField(ReduceBase, "meeting", SetField(Meeting(Day1), f, v)) :
          f \in {"issueID", "nameOfMeeting", "nameOfHouse", "date", "numberOfSpeeches"},
          v \in FieldFaults}
  \cup {SetField(ReduceBase, "chunk_result_urls", JArr(u)) :
          u \in {<<>>, <<JNum(5), U("c1")>>, <<JNum(5)>>, <<JStr("http")>>}}
  \cup {Garbage, JNull, JNum(3), JStr("map"), JArr(<<>>)}

\* parsePromptTaskMessage(record), and where the handler sends the record
Decode ==
  /\ codec.at = "body"
  /\ codec' = [at |-> "decoded", body |-> codec.body,
               out |-> parsePromptTaskMessage(codec.body),
               next |-> handlerNext(parsePromptTaskMessage(codec.body))]
  /\ UNCHANGED <<handlerVars, limiterVars, policyVars, twinVars, liveVars>>

\* JSON.stringify of the task: as it is, with meta set to undefined, or by
\* requeueWithDelay
Encode ==
  /\ codec.at = "decoded"
  /\ codec.out.ok
  /\ \E how \in {"same", "meta", "requeue"} :
       LET t == IF how = "meta" THEN WithField(codec.out.msg, "meta", Undefined)
                ELSE codec.out.msg
       IN codec' = [at |-> "encoded", body |-> codec.body, out |-> codec.out,
                    next |-> codec.next, how |-> how, task |-> t,
                    text |-> IF how = "requeue" THEN RequeuePayload(t) ELSE JSONstringify(t)]
  /\ UNCHANGED <<handlerVars, limiterVars, policyVars, twinVars, liveVars>>

\* parsePromptTaskMessage of the encoded task
DecodeAgain ==
  /\ codec.at = "encoded"
  /\ codec' = [at |-> "done", body |-> codec.body, out |-> codec.out, next |-> codec.next,
               how |-> codec.how, task |-> codec.task, text |-> codec.text,
               back |-> parsePromptTaskMessage(codec.text)]
  /\ UNCHANGED <<handlerVars, limiterVars, policyVars, twinVars, liveVars>>

InitCodec ==
  /\ \E b \in CodecBodies : codec = [at |-> "body", body |-> b]
  /\ records = <<>>
  /\ queue = {}
  /\ cur = 0
  /\ pc = "off"
  /\ message = Undefined
  /\ rq = NoFrame
  /\ blobs = <<>>
  /\ table = {}
  /\ article = Undefined
  /\ items = <<>>
  /\ i = 0
  /\ rejects = 0
  /\ stores = 0
  /\ chunks = <<>>
  /\ result = Undefined
  /\ log = <<>>
  /\ LimiterUnused
  /\ policy = [at |-> "none"]
  /\ twin = [at |-> "off"]
  /\ faults = [on |-> FALSE]

NextCodec == Decode \/ Encode \/ DecodeAgain

SpecCodec == InitCodec /\ [][NextCodec]_vars

----------------------------------------------------------------------------
(* TokenBucketRateLimiter.  now is Date.now() in ms since construction;    *)
(* limiter.tokens is in 1/1000 token, limiter.rate in tokens per second.   *)
(* One step of acquire() is one turn of its loop: tryConsumeToken, and on  *)
(* failure computeWaitTimeMs and the start of the sleep.                   *)

TokenBucketRateLimiter(tokensPerSecond, capacity, t) ==
  [capacity |-> Max(1, capacity),
   tokens |-> Max(1, capacity) * MS_PER_SECOND,
   rate |-> Max(tokensPerSecond, 1),
   lastRefillTimestamp |-> t]

\* mutant: the refill is not capped at the capacity
refillTokens_NoCap(l, t) ==
  LET elapsed == t - l.lastRefillTimestamp
  IN IF elapsed <= 0 THEN l
     ELSE [l EXCEPT !.tokens = l.tokens + elapsed * l.rate,
                    !.lastRefillTimestamp = t]

refillTokens(l, t) ==
  LET elapsed == t - l.lastRefillTimestamp
  IN IF elapsed <= 0 THEN l
     ELSE [l EXCEPT !.tokens = Min(l.capacity * MS_PER_SECOND, l.tokens + elapsed * l.rate),
                    !.lastRefillTimestamp = t]

\* mutant: the token is granted and stays in the bucket
tryConsumeToken_KeepToken(l, t) ==
  LET r == refillTokens(l, t)
  IN [ok |-> r.tokens >= MS_PER_SECOND, limiter |-> r]

tryConsumeToken(l, t) ==
  LET r == refillTokens(l, t)
  IN IF r.tokens >= MS_PER_SECOND
     THEN [ok |-> TRUE, limiter |-> [r EXCEPT !.tokens = @ - MS_PER_SECOND]]
     ELSE [ok |-> FALSE, limiter |-> r]

\* mutant: Math.floor in place of Math.ceil
computeWaitTimeMs_Floor(l) ==
  LET deficit == MS_PER_SECOND - l.tokens
  IN IF deficit <= 0 THEN 0 ELSE deficit \div l.rate

\* Math.ceil(deficit / refillRatePerMs)
computeWaitTimeMs(l) ==
  LET deficit == MS_PER_SECOND - l.tokens
  IN IF deficit <= 0 THEN 0 ELSE (deficit + l.rate - 1) \div l.rate

\* one turn of acquire()'s loop for a call in state c: the call's new state
acquireTurn(c) ==
  LET r == tryConsumeToken(limiter, now)
  IN IF r.ok
     THEN [c EXCEPT !.at = "granted", !.grantedAt = now]
     ELSE [c EXCEPT !.at = "sleeping",
                    !.wake = now + computeWaitTimeMs(r.limiter),
                    !.sleeps = Append(@, computeWaitTimeMs(r.limiter))]

\* constructor arguments: below 1 (clamped), and the tests' 2 and 5
Rates == {0, 1, 2, 3, 5}
Capacities == {0, 1, 2}
\* how far Date.now() moves between two steps, besides to a timer's expiry
ClockSteps == {250, 500}

\* a caller calls acquire(): the first turn of the loop
AcquireCall ==
  /\ Len(acquire) < MaxCallers
  /\ limiter' = tryConsumeToken(limiter, now).limiter
  /\ acquire' = Append(acquire,
                       acquireTurn([at |-> "called", called |-> now, wake |-> now,
                                    sleeps |-> <<>>, grantedAt |-> now]))
  /\ UNCHANGED <<now, handlerVars, codecVars, policyVars, twinVars, liveVars>>

\* sleep(waitMs) resolves, not before waitMs has passed: the next turn
AcquireResume ==
  /\ \E c \in 1..Len(acquire) :
       /\ acquire[c].at = "sleeping"
       /\ now >= acquire[c].wake
       /\ limiter' = tryConsumeToken(limiter, now).limiter
       /\ acquire' = [acquire EXCEPT ![c] = acquireTurn(@)]
  /\ UNCHANGED <<now, handlerVars, codecVars, policyVars, twinVars, liveVars>>

\* Date.now() advances, by a step or to the expiry of a pending sleep
ClockAdvance ==
  /\ \E d \in ClockSteps \cup
               {acquire[c].wake - now :
                  c \in {x \in 1..Len(acquire) :
                           acquire[x].at = "sleeping" /\ acquire[x].wake > now}} :
       /\ now + d <= MaxClock
       /\ now' = now + d
  /\ UNCHANGED <<limiter, acquire, handlerVars, codecVars, policyVars, twinVars, liveVars>>

InitLimiter ==
  /\ \E r \in Rates, c \in Capacities : limiter = TokenBucketRateLimiter(r, c, 0)
  /\ now = 0
  /\ acquire = <<>>
  /\ codec = NoCodec
  /\ policy = [at |-> "none"]
  /\ twin = [at |-> "off"]
  /\ faults = [on |-> FALSE]
  /\ records = <<>>
  /\ queue = {}
  /\ cur = 0
  /\ pc = "off"
  /\ message = Undefined
  /\ rq = NoFrame
  /\ blobs = <<>>
  /\ table = {}
  /\ article = Undefined
  /\ items = <<>>
  /\ i = 0
  /\ rejects = 0
  /\ stores = 0
  /\ chunks = <<>>
  /\ result = Undefined
  /\ log = <<>>

NextLimiter == AcquireCall \/ AcquireResume \/ ClockAdvance

SpecLimiter == InitLimiter /\ [][NextLimiter]_vars

(* Callers that keep calling.  Only differences of instants enter the      *)
(* limiter's arithmetic, so the instants are kept relative to Date.now():  *)
(* now stays 0 and the passing of d ms moves lastRefillTimestamp and the   *)
(* pending expiries d ms into the past.  An expiry in the past is as good  *)
(* as one at now, and a refill older than capacity seconds fills the       *)
(* bucket whatever its age (the rate is at least 1 token per second).      *)

\* a call's state without its history of sleeps
Waiting(c) == [c EXCEPT !.sleeps = <<>>]

\* a caller whose acquire() returned calls acquire() again
AcquireAgain ==
  /\ \E c \in 1..Len(acquire) :
       /\ acquire[c].at = "granted"
       /\ limiter' = tryConsumeToken(limiter, now).limiter
       /\ acquire' = [acquire EXCEPT ![c] =
                        Waiting(acquireTurn([at |-> "called", called |-> now, wake |-> now,
                                             sleeps |-> <<>>, grantedAt |-> now]))]
  /\ UNCHANGED <<now, handlerVars, codecVars, policyVars, twinVars, liveVars>>

\* sleep(waitMs) of call c resolves: the next turn of its loop
WaitResume(c) ==
  /\ c \in 1..Len(acquire)
  /\ acquire[c].at = "sleeping"
  /\ now >= acquire[c].wake
  /\ limiter' = tryConsumeToken(limiter, now).limiter
  /\ acquire' = [acquire EXCEPT ![c] = Waiting(acquireTurn(@))]
  /\ UNCHANGED <<now, handlerVars, codecVars, policyVars, twinVars, liveVars>>

\* d ms pass
Tick ==
  /\ \E d \in ClockSteps \cup
               {acquire[c].wake - now :
                  c \in {x \in 1..Len(acquire) :
                           acquire[x].at = "sleeping" /\ acquire[x].wake > now}} :
       /\ limiter' = [limiter EXCEPT !.lastRefillTimestamp =
                                       Max(@ - d, now - limiter.capacity * MS_PER_SECOND)]
       /\ acquire' = [c \in 1..Len(acquire) |->
                       [acquire[c] EXCEPT !.wake = Max(@ - d, now)]]
  /\ UNCHANGED <<now, handlerVars, codecVars, policyVars, twinVars, liveVars>>

NextLimiterFair ==
  \/ AcquireCall
  \/ AcquireAgain
  \/ \E c \in 1..MaxCallers : WaitResume(c)
  \/ Tick

\* time passes, and every timer that has expired fires
SpecLimiterFair ==
  /\ InitLimiter
  /\ [][NextLimiterFair]_vars
  /\ WF_vars(Tick)
  /\ \A c \in 1..MaxCallers : WF_vars(WaitResume(c))

----------------------------------------------------------------------------
(* Retry policy: pickDelaySeconds and classifyError.  Numbers are the      *)
(* fractions num/den of the codec; Math.random() is drawn by the step.     *)

\* a <= b for finite numbers
Le(a, b) == a.num * b.den <= b.num * a.den

\* resolveConfig: backoffBaseSeconds = Math.max(0.1, BACKOFF_BASE_SECONDS),
\* backoffCapSeconds = Math.max(backoffBaseSeconds, BACKOFF_CAP_SECONDS)
resolveConfig(base, cap) ==
  LET b == IF Le(JFrac(1, 10), base) THEN base ELSE JFrac(1, 10)
  IN [backoffBaseSeconds |-> b,
      backoffCapSeconds |-> IF Le(b, cap) THEN cap ELSE b]

\* mutant: Math.max in place of the final Math.min
clampDelaySeconds_Max(config, delaySeconds) ==
  IF Le(delaySeconds, config.backoffCapSeconds) THEN config.backoffCapSeconds
  ELSE delaySeconds

clampDelaySeconds(config, delaySeconds) ==
  LET safe == IF Le(JNum(0), delaySeconds) THEN delaySeconds ELSE JNum(0)
  IN IF Le(safe, config.backoffCapSeconds) THEN safe
     ELSE config.backoffCapSeconds

\* random: the value Math.random() returns, in [0, 1)
pickDelaySeconds(config, retryAfterSeconds, attempt, random) ==
  IF retryAfterSeconds # Undefined /\ isFiniteNumber(retryAfterSeconds)
  THEN clampDelaySeconds(config, retryAfterSeconds)
  ELSE LET base == config.backoffBaseSeconds
           \* backoffBaseSeconds * Math.pow(2, attempt - 1)
           grown == IF attempt >= 1
                    THEN JFrac(base.num * 2 ^ (attempt - 1), base.den)
                    ELSE JFrac(base.num, base.den * 2 ^ (1 - attempt))
           maxDelay == IF Le(config.backoffCapSeconds, grown)
                       THEN config.backoffCapSeconds ELSE grown
       IN JFrac(random.num * maxDelay.num, random.den * maxDelay.den)

\* err?.$metadata?.httpStatusCode ?? err?.statusCode ?? err?.status ?? err?.response?.status
getHttpStatus(err) ==
  Coalesce(Get(Get(err, "$metadata"), "httpStatusCode"),
    Coalesce(Get(err, "statusCode"),
      Coalesce(Get(err, "status"), Get(Get(err, "response"), "status"))))

\* v.toLowerCase().includes(word) for a string of characters v; a value that
\* is not a string counts as ''
Includes(v, word) ==
  LET upper == <<"A", "B", "C", "D", "E", "F", "G", "H", "I", "J", "K", "L", "M",
                 "N", "O", "P", "Q", "R", "S", "T", "U", "V", "W", "X", "Y", "Z">>
      lower == <<"a", "b", "c", "d", "e", "f", "g", "h", "i", "j", "k", "l", "m",
                 "n", "o", "p", "q", "r", "s", "t", "u", "v", "w", "x", "y", "z">>
      toLowerCase(c) == IF \E k \in 1..26 : upper[k] = c
                        THEN lower[CHOOSE k \in 1..26 : upper[k] = c] ELSE c
      cs == IF v.t = "string" /\ "cs" \in DOMAIN v THEN v.cs ELSE <<>>
      text == [k \in 1..Len(cs) |-> toLowerCase(cs[k])]
  IN \E k \in 1..Len(text) :
       /\ k + Len(word) - 1 <= Len(text)
       /\ SubSeq(text, k, k + Len(word) - 1) = word

isNetworkTimeout(err) ==
  LET timeout == <<"t", "i", "m", "e", "o", "u", "t">>
      throttl == <<"t", "h", "r", "o", "t", "t", "l">>
  IN \/ Includes(Get(err, "name"), timeout)
     \/ Includes(Get(err, "code"), timeout)
     \/ Includes(Get(err, "code"), throttl)
     \/ Includes(Get(err, "message"), timeout)
     \/ Includes(Get(err, "message"), throttl)

\* the retryable property of classifyError's result (retryAfterSeconds is
\* not part of the model)
classifyError(err) ==
  LET status == getHttpStatus(err)
  IN \/ Get(err, "retryable") = JTrue
     \/ status = JNum(408)
     \/ status = JNum(425)
     \/ status = JNum(429)
     \/ /\ status.t = "number"
        /\ \/ status.den > 0 /\ status.num >= 500 * status.den
           \/ status.den = 0 /\ status.num > 0
     \/ isNetworkTimeout(err)

PickDelay ==
  /\ policy.at = "pick"
  /\ \E r \in {0, 50, 99} :
       policy' = [at |-> "picked", config |-> policy.config,
                  retryAfterSeconds |-> policy.retryAfterSeconds,
                  attempt |-> policy.attempt,
                  delay |-> pickDelaySeconds(policy.config, policy.retryAfterSeconds,
                                              policy.attempt, JFrac(r, 100))]
  /\ UNCHANGED <<handlerVars, codecVars, limiterVars, twinVars, liveVars>>

Classify ==
  /\ policy.at = "classify"
  /\ policy' = [at |-> "classified", err |-> policy.err,
                retryable |-> classifyError(policy.err)]
  /\ UNCHANGED <<handlerVars, codecVars, limiterVars, twinVars, liveVars>>

InitPolicy ==
  /\ \/ \E base \in {JNum(0), JNum(1), JNum(2)}, cap \in {JNum(0), JNum(5), JNum(60)},
           hint \in {Undefined, NaN, JFrac(1, 0), JNum(-3), JNum(0), JFrac(5, 2),
                     JNum(30), JNum(120)},
           attempt \in 0..MaxAttempt :
          policy = [at |-> "pick", config |-> resolveConfig(base, cap),
                    retryAfterSeconds |-> hint, attempt |-> attempt]
     \/ \E flag \in {Undefined, JTrue, JStr("true")},
           status \in {Undefined, JNum(200), JNum(408), JNum(425), JNum(429), JNum(499),
                       JNum(500), JNum(503), JStr("429")},
           where \in {"$metadata", "statusCode", "status", "response"},
           name \in {JText(<<"E", "r", "r", "o", "r">>),
                     JText(<<"T", "i", "m", "e", "o", "u", "t", "E", "r", "r", "o", "r">>),
                     JText(<<"T", "h", "r", "o", "t", "t", "l", "i", "n", "g">>)},
           code \in {Undefined, JNum(7), JText(<<"E", "T", "I", "M", "E", "O", "U", "T">>),
                     JText(<<"T", "h", "r", "o", "t", "t", "l", "e", "d">>)},
           text \in {JText(<<"b", "o", "o", "m">>),
                     JText(<<"t", "i", "m", "e", "o", "u", "t">>),
                     JText(<<"T", "H", "R", "O", "T", "T", "L", "E">>)} :
          LET held == CASE where = "$metadata" ->
                             JObj([f \in {"$metadata"} |->
                                     JObj([httpStatusCode |-> status])])
                        [] where = "response" ->
                             JObj([response |-> JObj([status |-> status])])
                        [] OTHER -> JObj([f \in {where} |-> status])
          IN policy = [at |-> "classify",
                       err |-> SetField(SetField(SetField(SetField(held, "retryable", flag),
                                 "name", name), "code", code), "message", text)]
  /\ codec = NoCodec
  /\ LimiterUnused
  /\ twin = [at |-> "off"]
  /\ faults = [on |-> FALSE]
  /\ records = <<>>
  /\ queue = {}
  /\ cur = 0
  /\ pc = "off"
  /\ message = Undefined
  /\ rq = NoFrame
  /\ blobs = <<>>
  /\ table = {}
  /\ article = Undefined
  /\ items = <<>>
  /\ i = 0
  /\ rejects = 0
  /\ stores = 0
  /\ chunks = <<>>
  /\ result = Undefined
  /\ log = <<>>

NextPolicy == PickDelay \/ Classify

SpecPolicy == InitPolicy /\ [][NextPolicy]_vars

----------------------------------------------------------------------------
(* Reading the call history *)

\* the typed task of record k (defined when the codec accepts its body)
ParsedOf(k) == parsePromptTaskMessage(records[k].body)

\* record k was handed to the map or the reduce executor
Dispatched(k) ==
  /\ k \in 1..Len(records)
  /\ handlerNext(ParsedOf(k)) \in {"map_start", "red_check"}
  /\ k < cur \/ (k = cur /\ pc # "parse")

IsMap(k) == ParsedOf(k).ok /\ Get(ParsedOf(k).msg, "type") = JStr("map")
IsReduce(k) == ParsedOf(k).ok /\ Get(ParsedOf(k).msg, "type") = JStr("reduce")

\* indices of the log entries of record k with operation op
Calls(k, op) == {j \in 1..Len(log) : log[j].rec = k /\ log[j].op = op}
OkCalls(k, op) == {j \in Calls(k, op) : log[j].ok}

Range(seq) == {seq[n] : n \in 1..Len(seq)}

\* rows the table store accepted, and rows sent to it, in BatchWrite calls of record k
AcceptedRows(k) == UNION {Range(log[j].arg.accepted) : j \in OkCalls(k, "BatchWrite")}
SentRows(k) == UNION {Range(log[j].arg.sent) : j \in Calls(k, "BatchWrite")}

\* a copy of record k's task other than the original message
Copies(k) == {m \in queue : m.task = records[k].task /\ m # records[k]}

\* the work of record k completed: the map result blob was written, or storeData
\* had the primary row and every index row it sent accepted
WorkCompleted(k) ==
  \/ IsMap(k) /\ OkCalls(k, "PutObject") # {}
  \/ /\ IsReduce(k)
     /\ OkCalls(k, "Put") # {}
     /\ SentRows(k) \subseteq AcceptedRows(k)
     /\ \E j \in Calls(k, "Delete") : log[j].site = "red_delete"

----------------------------------------------------------------------------
(* Queue protocol *)

\* C1: every copy requeueWithDelay publishes is the original message with
\* retryAttempts increased by exactly one and every other field unchanged, and
\* the delete of the original inside requeueWithDelay is issued only directly
\* after the successful publish of that same call, never before or without it.
C1_RepublishThenDelete ==
  /\ \A j \in 1..Len(log) :
       log[j].op = "Send" =>
         LET m == ParsedOf(log[j].rec).msg
             b == log[j].arg.body
         IN /\ b.t = "object"
            /\ DOMAIN b.o = DOMAIN m.o
            /\ \A f \in DOMAIN m.o \ {"retryAttempts"} : b.o[f] = m.o[f]
            /\ b.o["retryAttempts"] = JNum(m.o["retryAttempts"].num + 1)
            /\ log[j].ok => \E c \in Copies(log[j].rec) : c.body = b
  /\ \A j \in 1..Len(log) :
       (log[j].op = "Delete" /\ log[j].site = "rq_delete") =>
         /\ j > 1
         /\ log[j - 1].op = "Send"
         /\ log[j - 1].ok
         /\ log[j - 1].rec = log[j].rec
         /\ log[j - 1].call = log[j].call
  /\ pc = "rq_delete" =>
       /\ log # <<>>
       /\ log[Len(log)].op = "Send"
       /\ log[Len(log)].ok
       /\ log[Len(log)].rec = cur

\* a copy was published and the original then deleted
C1_Witness ==
  \E j \in 1..Len(log) :
    /\ log[j].op = "Delete" /\ log[j].site = "rq_delete" /\ log[j].ok
    /\ records[log[j].rec] \notin queue
    /\ Copies(log[j].rec) # {}

\* C2: when SendMessage throws, that requeueWithDelay call issues no
\* DeleteMessage; its next call is ChangeMessageVisibility on the original
\* message with the clamped delay of the failed publish, or 300 seconds when
\* that clamped delay is 0.
C2_SendFailureExtendsVisibility ==
  \A j \in 1..Len(log) :
    (log[j].op = "Send" /\ ~log[j].ok) =>
      /\ log[j].arg.delay \in 0..MAX_SQS_DELAY_SECONDS
      /\ \A d \in Calls(log[j].rec, "Delete") : log[d].call # log[j].call
      /\ j = Len(log) => (pc = "rq_vis" /\ cur = log[j].rec)
      /\ j < Len(log) =>
           /\ log[j + 1].op = "ChangeVisibility"
           /\ log[j + 1].rec = log[j].rec
           /\ log[j + 1].call = log[j].call
           /\ log[j + 1].arg = (IF log[j].arg.delay = 0 THEN 300 ELSE log[j].arg.delay)

\* a publish with clamped delay 0 failed and visibility was set to 300 seconds
C2_Witness ==
  \E j \in 2..Len(log) :
    /\ log[j].op = "ChangeVisibility"
    /\ log[j - 1].op = "Send" /\ ~log[j - 1].ok
    /\ log[j - 1].arg.delay = 0
    /\ log[j].arg = FIVE_MINUTES_SECONDS

\* C3: no dispatched task is lost. For every record handed to the map or the
\* reduce executor, whatever SendMessage, DeleteMessage and
\* ChangeMessageVisibility calls fail, either the original message or a
\* republished copy of its task is still in the queue, or its work completed
\* and the original was acknowledged.
C3_NoTaskLost ==
  \A k \in 1..Len(records) :
    Dispatched(k) =>
      \/ records[k] \in queue
      \/ Copies(k) # {}
      \/ WorkCompleted(k)

\* the original of an uncompleted task is gone after a failed call, and a copy
\* carries the task
C3_Witness ==
  \E k \in 1..Len(records) :
    /\ Dispatched(k)
    /\ records[k] \notin queue
    /\ ~WorkCompleted(k)
    /\ Copies(k) # {}
    /\ \E j \in 1..Len(log) : ~log[j].ok /\ log[j].op \in {"Send", "Delete", "ChangeVisibility"}

----------------------------------------------------------------------------
(* Reduce executor: dependencies *)

\* the dependency locators record k names
DependenciesOf(k) == Range(Get(ParsedOf(k).msg, "chunk_result_urls").a)

\* a dependency blob of reduce record k does not exist
MissingDependency(k) ==
  /\ IsReduce(k)
  /\ \E u \in DependenciesOf(k) :
       parseS3Uri(u).ok /\ Locator(parseS3Uri(u)) \notin DOMAIN blobs

\* the executor has returned or thrown for record k
Finished(k) == k < cur \/ (k = cur /\ pc = "failed")

\* C4 (as stated): a reduce execution with a missing dependency blob calls
\* the generator zero times, writes no record row, and invokes
\* requeueWithDelay exactly once, publishing at most one copy, with the
\* task's own delay hint.
C4_MissingDependencyRequeuesOnce ==
  \A k \in 1..Len(records) :
    (Dispatched(k) /\ MissingDependency(k)) =>
      /\ Calls(k, "Generate") = {}
      /\ Calls(k, "Put") = {}
      /\ Calls(k, "BatchWrite") = {}
      /\ \A j \in Calls(k, "Send") :
           /\ log[j].call = 1
           /\ log[j].arg.delay = safeDelay(Get(ParsedOf(k).msg, "retryMs_in"))
      /\ k = cur => rq.call <= 1
      /\ Cardinality(Copies(k)) <= 1
      /\ Finished(k) => Calls(k, "Send") # {}

\* C5: within one reduce execution the generator is called at most once,
\* and only after an existence check of every dependency locator has
\* returned true; when a check reports a blob missing, no dependency blob is
\* fetched and the generator is not called.
C5_GenerateAfterAllChecks ==
  \A k \in 1..Len(records) :
    IsReduce(k) =>
      /\ Cardinality(Calls(k, "Generate")) <= 1
      /\ \A g \in Calls(k, "Generate") \cup Calls(k, "Get") :
           \A u \in DependenciesOf(k) :
             \E h \in Calls(k, "Head") :
               h < g /\ log[h].arg.uri = u /\ log[h].arg.exists = "true"
      /\ (\E h \in Calls(k, "Head") : log[h].arg.exists = "false") =>
           (Calls(k, "Get") = {} /\ Calls(k, "Generate") = {})
      /\ (k = cur /\ pc \in {"red_load", "red_gen"}) =>
           \A h \in Calls(k, "Head") : log[h].arg.exists = "true"

\* the generator ran for a reduce task with two distinct dependencies
C5_Witness ==
  \E k \in 1..Len(records) :
    /\ IsReduce(k)
    /\ OkCalls(k, "Generate") # {}
    /\ Cardinality(DependenciesOf(k)) = 2
    /\ Cardinality(Calls(k, "Head")) = 2

----------------------------------------------------------------------------
(* Record writer *)

\* C6: storeData writes the primary row before it attempts any index row
\* write, and in every reachable table state, including the states after a
\* failure in the middle of storeData, an index row for a record id implies
\* that the primary row (A#id, META) exists.
C6_IndexRowImpliesPrimaryRow ==
  /\ \A r \in table :
       r.kind # "ARTICLE" =>
         \E m \in table :
           m.PK = <<"A", r.articleId>> /\ m.SK = <<"META">> /\ m.kind = "ARTICLE"
  /\ \A j \in 1..Len(log) :
       log[j].op = "BatchWrite" =>
         \E p \in 1..(j - 1) : log[p].op = "Put" /\ log[p].ok /\ log[p].rec = log[j].rec

\* storeData failed in the middle: some index rows of the record are in the
\* table, others are not
C6_Witness ==
  /\ pc = "st_failed"
  /\ log # <<>>
  /\ ~log[Len(log)].ok
  /\ log[Len(log)].op = "BatchWrite"
  /\ AcceptedRows(cur) # {}
  /\ \E r \in Range(items) : r \notin table

\* C7: when batchPutAll returns, every index row passed to it has been
\* accepted by the store in some batch call (and is in the table); no
\* rejected row is dropped.
C7_EveryIndexRowAccepted ==
  pc \in {"st_done", "red_delete"} =>
    /\ Normalize(article).ok
    /\ \A r \in Range(idxItems(article, Normalize(article))) :
         r \in AcceptedRows(cur) /\ r \in table
    /\ SentRows(cur) \subseteq AcceptedRows(cur)

\* batchPutAll returned after the store had rejected rows of a batch
C7_Witness ==
  /\ pc = "st_done"
  /\ \E j \in OkCalls(cur, "BatchWrite") :
       Len(log[j].arg.accepted) < Len(log[j].arg.sent)
  /\ Len(idxItems(article, Normalize(article))) > BatchLimit

----------------------------------------------------------------------------
(* Executors: acknowledge after the work *)

\* C8: processMapRecord issues its success-path delete only after the result
\* blob was written successfully; when the fetch, the generation or the
\* upload fails, the success-path delete is not issued and the failure goes
\* through requeueWithDelay.
C8_MapDeleteAfterUpload ==
  \A k \in 1..Len(records) :
    IsMap(k) =>
      /\ \A d \in Calls(k, "Delete") :
           log[d].site = "map_delete" => \E u \in OkCalls(k, "PutObject") : u < d
      /\ (k = cur /\ pc = "map_delete") =>
           /\ OkCalls(k, "PutObject") # {}
           /\ Locator(parseS3Uri(Get(ParsedOf(k).msg, "result_url"))) \in DOMAIN blobs
      /\ (\E j \in Calls(k, "Get") \cup Calls(k, "Generate") \cup Calls(k, "PutObject") :
            ~log[j].ok) =>
           /\ \A d \in Calls(k, "Delete") : log[d].site # "map_delete"
           /\ Calls(k, "Send") # {} \/ (k = cur /\ pc = "rq_send")
      /\ (Dispatched(k) /\ Finished(k)) =>
           \/ \E d \in OkCalls(k, "Delete") : log[d].site = "map_delete"
           \/ Calls(k, "Send") # {}

\* a map message was deleted on the success path
C8_Witness ==
  \E k \in 1..Len(records) :
    /\ IsMap(k)
    /\ \E d \in OkCalls(k, "Delete") : log[d].site = "map_delete"
    /\ records[k] \notin queue
    /\ Copies(k) = {}

\* C9: processReduceRecord issues its success-path delete only after
\* storeData completed, the primary row and every index row accepted; a
\* failure in loading, generation, merge or persistence leads to a requeue
\* and never to a success-path delete.
C9_ReduceDeleteAfterStore ==
  \A k \in 1..Len(records) :
    IsReduce(k) =>
      /\ \A d \in Calls(k, "Delete") :
           log[d].site = "red_delete" =>
             /\ \E p \in OkCalls(k, "Put") : p < d
             /\ SentRows(k) \subseteq AcceptedRows(k)
             /\ \A b \in Calls(k, "BatchWrite") : b < d
      /\ (k = cur /\ pc = "red_delete") =>
           /\ Normalize(article).ok
           /\ mainItem(article, Normalize(article)) \in table
           /\ Range(idxItems(article, Normalize(article))) \subseteq AcceptedRows(k)
      /\ (\E j \in Calls(k, "Get") \cup Calls(k, "Generate") \cup Calls(k, "Put")
                   \cup Calls(k, "BatchWrite") : ~log[j].ok) =>
           /\ \A d \in Calls(k, "Delete") : log[d].site # "red_delete"
           /\ Calls(k, "Send") # {} \/ (k = cur /\ pc = "rq_send")
      /\ (k = cur /\ OkCalls(k, "Generate") # {} /\ ~Normalize(article).ok) =>
           /\ Calls(k, "Put") = {}
           /\ \A d \in Calls(k, "Delete") : log[d].site # "red_delete"
      /\ (Dispatched(k) /\ Finished(k)) =>
           \/ \E d \in OkCalls(k, "Delete") : log[d].site = "red_delete"
           \/ Calls(k, "Send") # {}

\* a reduce message was deleted on the success path after a batch with a
\* rejected row
C9_Witness ==
  \E k \in 1..Len(records) :
    /\ IsReduce(k)
    /\ \E d \in OkCalls(k, "Delete") : log[d].site = "red_delete"
    /\ \E j \in OkCalls(k, "BatchWrite") : Len(log[j].arg.accepted) < Len(log[j].arg.sent)
    /\ records[k] \notin queue

----------------------------------------------------------------------------
(* Handler: records the codec rejects *)

\* the codec rejects the body of record k
Rejected(k) == ~ParsedOf(k).ok

\* no call other than DeleteMessage was made for record k
OnlyDeletes(k) == \A j \in 1..Len(log) : log[j].rec = k => log[j].op = "Delete"

\* C10 (as stated): for every record whose body the codec rejects, the
\* handler deletes the record, issues no republish and no visibility change,
\* invokes no executor and no generation, and continues with the next record
\* of the batch.
C10_RejectedDroppedAndContinues ==
  \A k \in 1..Len(records) :
    (Rejected(k) /\ (k < cur \/ (k = cur /\ pc # "parse"))) =>
      /\ OnlyDeletes(k)
      /\ ~(k = cur /\ pc = "failed")
      /\ k < cur => records[k] \notin queue

\* C10 (amended): for every record whose body the codec rejects, the handler
\* issues one DeleteMessage for the record and no other call (no republish,
\* no visibility change, no executor, no generation); when the delete
\* succeeds the record is gone and the handler continues with the next
\* record; when the delete throws, the error leaves the handler: the record
\* stays in the queue and the rest of the batch is not processed.
C10_RejectedDropped ==
  \A k \in 1..Len(records) :
    (Rejected(k) /\ (k < cur \/ (k = cur /\ pc # "parse"))) =>
      /\ OnlyDeletes(k)
      /\ Cardinality(Calls(k, "Delete")) <= 1
      /\ \A d \in Calls(k, "Delete") : log[d].site = "drop"
      /\ k < cur => (OkCalls(k, "Delete") # {} /\ records[k] \notin queue)
      /\ (k = cur /\ pc = "failed") =>
           /\ Calls(k, "Delete") # {}
           /\ OkCalls(k, "Delete") = {}
           /\ records[k] \in queue
           /\ \A j \in 1..Len(log) : log[j].rec <= k
      /\ (k = cur /\ pc # "failed") => (pc = "drop" /\ Calls(k, "Delete") = {})

\* a rejected record was deleted and the next record of the batch was processed
C10_Witness ==
  \E k \in 1..Len(records) :
    /\ Rejected(k)
    /\ OkCalls(k, "Delete") # {}
    /\ records[k] \notin queue
    /\ \E j \in 1..Len(log) : log[j].rec = k + 1

----------------------------------------------------------------------------
(* Requeue: attempts and delays *)

\* the attempt count of the task record k carries
AttemptsOf(k) == Get(ParsedOf(k).msg, "retryAttempts").num

\* C11 (as stated): a failing task is requeued at most maxAttempts times.
\* No copy is published with an attempt count above maxAttempts, and once
\* the limit is reached the executor publishes nothing and leaves the
\* message in the queue.
C11_RequeuedAtMostMaxAttempts ==
  /\ \A j \in 1..Len(log) :
       log[j].op = "Send" => Get(log[j].arg.body, "retryAttempts").num <= maxAttempts
  /\ \A k \in 1..Len(records) :
       (Dispatched(k) /\ AttemptsOf(k) >= maxAttempts) =>
         /\ Calls(k, "Send") = {}
         /\ Copies(k) = {}
         /\ records[k] \in queue \/ WorkCompleted(k)

\* C12 (as stated): when a step of the map execution fails, requeueWithDelay
\* is invoked exactly once with delaySeconds equal to the five-minute
\* constant, whatever the attempt count and the fields of the message.
C12_MapRequeueFiveMinutes ==
  \A k \in 1..Len(records) :
    IsMap(k) =>
      \A j \in Calls(k, "Send") :
        /\ log[j].call = 1
        /\ log[j].arg.delaySeconds = JNum(FIVE_MINUTES_SECONDS)
        /\ log[j].arg.delay = FIVE_MINUTES_SECONDS

\* C13 (as stated): when a reduce task is requeued, the delaySeconds passed
\* to requeueWithDelay is pickRequeueDelaySeconds of the message's delay
\* hint in milliseconds.
C13_ReduceRequeueDelayPicked ==
  \A k \in 1..Len(records) :
    IsReduce(k) =>
      \A j \in Calls(k, "Send") :
        log[j].arg.delaySeconds =
          JNum(pickRequeueDelaySeconds(Get(ParsedOf(k).msg, "retryMs_in")))

\* C14: for every message the codec accepts and every failure outcome, the
\* DelaySeconds of a republished copy is an integer in [0, 900] and the
\* VisibilityTimeout of the fallback is an integer in [1, 900].
C14_DelaysWithinTransportLimits ==
  \A j \in 1..Len(log) :
    /\ log[j].op = "Send" =>
         (ParsedOf(log[j].rec).ok /\ log[j].arg.delay \in 0..MAX_SQS_DELAY_SECONDS)
    /\ log[j].op = "ChangeVisibility" =>
         (ParsedOf(log[j].rec).ok /\ log[j].arg \in 1..MAX_SQS_DELAY_SECONDS)

\* a delay hint above the transport maximum was clamped, in the publish and
\* in the fallback
C14_Witness ==
  \E j \in 2..Len(log) :
    /\ log[j].op = "ChangeVisibility"
    /\ log[j].arg = MAX_SQS_DELAY_SECONDS
    /\ log[j - 1].op = "Send"
    /\ log[j - 1].arg.delay = MAX_SQS_DELAY_SECONDS
    /\ Floor(log[j - 1].arg.delaySeconds) > MAX_SQS_DELAY_SECONDS

----------------------------------------------------------------------------
(* Task Message Codec *)

\* the two tasks have the same properties with the same values
TaskEq(a, b) == \A f \in DOMAIN a.o \cup DOMAIN b.o : Get(a, f) = Get(b, f)

\* C15: decoding the JSON encoding of a valid task t (a task the codec
\* returned) yields a task equal to t, and the body requeueWithDelay
\* publishes is never rejected and decodes to t with the attempt count
\* incremented by one.
C15_EncodeDecodeRoundTrip ==
  codec.at = "done" =>
    /\ codec.back.ok
    /\ TaskEq(codec.back.msg,
              IF codec.how = "requeue"
              THEN WithField(codec.task, "retryAttempts",
                             JNum(Get(codec.task, "retryAttempts").num + 1))
              ELSE codec.task)

\* a reduce task with two attempts was republished by requeueWithDelay and
\* decoded with three
C15_Witness ==
  /\ codec.at = "done"
  /\ codec.back.ok
  /\ codec.how = "requeue"
  /\ Get(codec.task, "type") = JStr("reduce")
  /\ Get(codec.task, "retryAttempts") = JNum(2)
  /\ Get(codec.back.msg, "retryAttempts") = JNum(3)
  /\ Get(codec.back.msg, "chunk_result_urls") = Get(codec.task, "chunk_result_urls")

\* C16: in every task the codec returns the attempt count is an integer >= 0:
\* 0 when the payload's count is absent, negative or non-finite, the number a
\* numeric string denotes ("2" gives 2), and otherwise the floored value.
C16_AttemptNormalized ==
  (codec.at # "none" /\ codec.at # "body" /\ codec.out.ok) =>
    LET a == Get(codec.body, "retryAttempts")
        n == Get(codec.out.msg, "retryAttempts")
    IN /\ n.t = "number" /\ n.den = 1 /\ n.num >= 0
       /\ a = Undefined => n = JNum(0)
       /\ (a.t = "number" /\ (a.den = 0 \/ a.num < 0)) => n = JNum(0)
       /\ (a.t = "number" /\ a.den > 0 /\ a.num >= 0) => n = JNum(a.num \div a.den)
       /\ a = JStr("2") => n = JNum(2)
       /\ a = JStr("-1") => n = JNum(0)

\* a payload whose attempt count is the string "2" was decoded to a task
\* with attempt count 2
C16_Witness ==
  /\ codec.at = "decoded"
  /\ codec.out.ok
  /\ Get(codec.body, "retryAttempts") = JStr("2")
  /\ Get(codec.out.msg, "retryAttempts") = JNum(2)

\* the discriminant is neither the string 'map' nor the string 'reduce'
UnrecognizedDiscriminant(b) == Get(b, "type") \notin {JStr("map"), JStr("reduce")}

\* a required field other than the attempt count is missing or holds a value
\* of another type than the variant declares
RequiredFieldMistyped(b) ==
  \/ /\ Get(b, "type") = JStr("map")
     /\ \/ \E f \in {"url", "result_url", "llm", "llmModel"} : Get(b, f).t # "string"
        \/ Get(b, "retryMs_in").t # "number"
  \/ /\ Get(b, "type") = JStr("reduce")
     /\ \/ \E f \in {"prompt", "issueID", "llm", "llmModel"} : Get(b, f).t # "string"
        \/ Get(b, "chunk_result_urls").t # "array"
        \/ Get(b, "retryMs_in").t # "number"
        \/ Get(b, "meeting").t # "object"
        \/ \E f \in {"issueID", "nameOfMeeting", "nameOfHouse", "date"} :
             Get(Get(b, "meeting"), f).t # "string"
        \/ Get(Get(b, "meeting"), "numberOfSpeeches").t # "number"

\* the attempt count is missing, not a number, or negative
AttemptMalformed(b) ==
  \/ Get(b, "retryAttempts").t # "number"
  \/ Get(b, "retryAttempts").num < 0

MapPayloadWithoutDelayHint(b) ==
  /\ Get(b, "type") = JStr("map")
  /\ StartsWithS3(Get(b, "url"))
  /\ StartsWithS3(Get(b, "result_url"))
  /\ Get(b, "llm") \in {JStr("gemini"), JStr("fake")}
  /\ NonEmptyString(Get(b, "llmModel"))
  /\ isFiniteNumber(Get(b, "retryAttempts")) /\ Get(b, "retryAttempts").num >= 0
  /\ Get(b, "meta") = Undefined \/ Get(b, "meta").t = "object"
  /\ Get(b, "retryMs_in") = Undefined

\* C18: a map payload with the map variant's fields (s3 source, s3 result,
\* non-empty generator and model, attempt >= 0, optional metadata) and no
\* delay hint is accepted by the codec and dispatched to the map executor.
C18_MapWithoutDelayHintDispatched ==
  (codec.at = "decoded" /\ MapPayloadWithoutDelayHint(codec.body)) =>
    /\ codec.out.ok
    /\ codec.next = "map_start"

----------------------------------------------------------------------------
(* Rate limiter *)

\* C19: in every reachable state of a TokenBucketRateLimiter
\* 0 <= tokens <= capacity, and lastRefillTimestamp never decreases, whatever
\* the sequence and interleaving of acquire() calls and clock advances.
C19_TokensWithinCapacity ==
  /\ [](/\ 0 <= limiter.tokens
        /\ limiter.tokens <= limiter.capacity * MS_PER_SECOND)
  /\ [][limiter'.lastRefillTimestamp >= limiter.lastRefillTimestamp]_vars

\* every call was made, one of them slept, the clock advanced, and the last
\* refill since filled the bucket to its capacity before a token was taken
C19_Witness ==
  /\ Len(acquire) = MaxCallers
  /\ \E c \in 1..Len(acquire) : acquire[c].at = "granted" /\ acquire[c].sleeps # <<>>
  /\ limiter.lastRefillTimestamp > 0
  /\ limiter.tokens = (limiter.capacity - 1) * MS_PER_SECOND

\* C20: a fresh limiter of capacity C and rate R grants the first C acquire()
\* calls made at the instant of its construction without sleeping; the next
\* acquire() at that instant, with no further call made, sleeps exactly once,
\* for ceil(1000 / R) ms, before it is granted.
C20_BurstThenOneSleep ==
  \A k \in 1..Len(acquire) :
    /\ (k <= limiter.capacity /\ acquire[k].called = 0) =>
         /\ acquire[k].at = "granted"
         /\ acquire[k].sleeps = <<>>
    /\ (k = limiter.capacity + 1 /\ acquire[k].called = 0 /\ Len(acquire) = k) =>
         /\ acquire[k].sleeps = <<(MS_PER_SECOND + limiter.rate - 1) \div limiter.rate>>
         /\ acquire[k].at = "sleeping" => acquire[k].wake = acquire[k].sleeps[1]

\* rate 2, capacity 2: the third call slept 500 ms once and was granted
C20_Witness ==
  /\ limiter.rate = 2
  /\ limiter.capacity = 2
  /\ Len(acquire) = 3
  /\ \A k \in 1..2 : acquire[k].at = "granted" /\ acquire[k].sleeps = <<>>
  /\ acquire[3].called = 0
  /\ acquire[3].at = "granted"
  /\ acquire[3].sleeps = <<500>>

\* the calls granted at an instant from s to e
GrantedWithin(s, e) ==
  {c \in 1..Len(acquire) :
     acquire[c].at = "granted" /\ s <= acquire[c].grantedAt /\ acquire[c].grantedAt <= e}

\* C21: over any interval of T seconds (here e - s ms, between two grants)
\* the number of acquire() calls the limiter grants is at most
\* capacity + tokensPerSecond * T, also when several calls are pending
\* concurrently.
C21_GrantsBoundedByRate ==
  \A a, b \in GrantedWithin(0, MaxClock) :
    LET s == acquire[a].grantedAt
        e == acquire[b].grantedAt
    IN s <= e =>
         Cardinality(GrantedWithin(s, e)) * MS_PER_SECOND
           <= limiter.capacity * MS_PER_SECOND + limiter.rate * (e - s)

\* capacity 1: a call granted at construction, and two calls that slept
\* concurrently granted later at different instants
C21_Witness ==
  /\ limiter.capacity = 1
  /\ Len(acquire) = 3
  /\ \A c \in 1..3 : acquire[c].at = "granted" /\ acquire[c].called = 0
  /\ acquire[1].grantedAt = 0
  /\ acquire[2].sleeps # <<>> /\ acquire[3].sleeps # <<>>
  /\ acquire[2].grantedAt # acquire[3].grantedAt

\* C22: every call to the generation service made by the map or the reduce
\* executor comes after a successful acquire() on the rate limiter for that
\* call: at any moment at least as many acquire() calls were granted as
\* generation calls were made.
C22_GenerateAfterAcquire ==
  Cardinality({j \in 1..Len(log) : log[j].op = "Generate"})
    <= Cardinality({c \in 1..Len(acquire) : acquire[c].at = "granted"})

----------------------------------------------------------------------------
(* Retry policy *)

\* C23: the delay returned by pickDelaySeconds always lies in
\* [0, backoffCapSeconds]: a finite retry-after hint is returned clamped to
\* that range, and without one the delay lies in
\* [0, min(backoffCapSeconds, backoffBaseSeconds * 2^(attempt-1))].
C23_DelayWithinCap ==
  policy.at = "picked" =>
    LET cap == policy.config.backoffCapSeconds
        base == policy.config.backoffBaseSeconds
        hint == policy.retryAfterSeconds
        d == policy.delay
        Same(a, b) == a.num * b.den = b.num * a.den
    IN /\ d.den > 0
       /\ 0 <= d.num
       /\ d.num * cap.den <= cap.num * d.den
       /\ (hint # Undefined /\ hint.den > 0) =>
            Same(d, IF hint.num < 0 THEN JNum(0)
                    ELSE IF hint.num * cap.den > cap.num * hint.den THEN cap
                    ELSE hint)
       /\ (hint = Undefined \/ hint.den = 0) =>
            IF policy.attempt >= 1
            THEN d.num * base.den <= base.num * 2 ^ (policy.attempt - 1) * d.den
            ELSE 2 * d.num * base.den <= base.num * d.den

\* base 1, cap 60, attempt 5, no hint: a delay above 15 and below the
\* ceiling 16 was picked
C23_Witness ==
  /\ policy.at = "picked"
  /\ policy.config = [backoffBaseSeconds |-> JNum(1), backoffCapSeconds |-> JNum(60)]
  /\ policy.attempt = 5
  /\ policy.retryAfterSeconds = Undefined
  /\ policy.delay.num > 15 * policy.delay.den
  /\ policy.delay.num < 16 * policy.delay.den

\* C24: classifyError reports an error as retryable if and only if its
\* retryable flag is true, or its upstream status is 408, 425, 429 or >= 500,
\* or its name, code or message indicates a timeout or throttle.
C24_RetryableIff ==
  policy.at = "classified" =>
    LET status == getHttpStatus(policy.err)
        Indicates(v) ==
          \/ Includes(v, <<"t", "i", "m", "e", "o", "u", "t">>)
          \/ Includes(v, <<"t", "h", "r", "o", "t", "t", "l">>)
    IN policy.retryable <=>
         \/ Get(policy.err, "retryable") = JTrue
         \/ status \in {JNum(408), JNum(425), JNum(429)}
         \/ status.t = "number" /\ status.num >= 500
         \/ \E f \in {"name", "code", "message"} : Indicates(Get(policy.err, f))

----------------------------------------------------------------------------
(* Storage writer: dates, months and rows *)

\* C25: in every primary row and index row written by storeData, month is
\* the year-month of the normalized date, whatever month the incoming Record
\* carried.
C25_MonthMatchesDate ==
  \A r \in table : r.month = IsoMonth(r.date)

\* C26: for any two records, the index sort keys written under the same
\* facet partition compare lexicographically in the same order as the
\* records' normalized dates, and every row of one record carries the same
\* canonical UTC date.
C26_SortKeyOrderIsDateOrder ==
  LET Before(a, b) ==
        \/ a.y < b.y
        \/ a.y = b.y /\ a.mo < b.mo
        \/ a.y = b.y /\ a.mo = b.mo /\ a.d < b.d
        \/ a.y = b.y /\ a.mo = b.mo /\ a.d = b.d /\ a.hh < b.hh
      \* Y#<yyyy>#M#<mm>#D#<iso>#A#<id>, compared up to the date
      KeyBefore(k, l) ==
        \/ k[2] < l[2]
        \/ k[2] = l[2] /\ k[4] < l[4]
        \/ k[2] = l[2] /\ k[4] = l[4] /\ Before(k[6], l[6])
  IN /\ \A r1, r2 \in {r \in table : Len(r.SK) = 8} :
          (r1.PK = r2.PK /\ r1.articleId # r2.articleId /\ Before(r1.date, r2.date))
            => KeyBefore(r1.SK, r2.SK)
     /\ \A j \in 1..Len(log) :
          log[j].op = "BatchWrite" =>
            \A k \in 1..Len(log[j].arg.sent) :
              log[j].arg.sent[k].date = Normalize(article).iso

\* the Record's date is missing, empty or unparseable, or its month is not
\* of the form YYYY-MM
NotNormalizable(art) ==
  \/ art.date.t \in {"undefined", "null"}
  \/ art.date.dt.form \in {"empty", "garbage"}
  \/ ~ValidYMD(art.date.dt)
  \/ art.month.t \notin {"undefined", "null"} /\ "ym" \notin DOMAIN art.month

\* C27: if the Record's date cannot be normalized or its month is not of the
\* form YYYY-MM, storeData fails before issuing any write: no Put and no
\* BatchWrite is sent, so no row is written or changed.
C27_BadDateWritesNothing ==
  (pc \in {"sd_put", "sd_batch", "st_done", "st_failed"} /\ NotNormalizable(article)) =>
    /\ pc = "st_failed"
    /\ log = <<>>

\* a second storeData call, with an unparseable date, failed with no call
\* sent, the rows stored by the first still there
C27_Witness ==
  /\ pc = "st_failed"
  /\ stores = 2
  /\ table # {}
  /\ log = <<>>
  /\ article.date.t = "string"
  /\ article.date.dt.form = "garbage"

\* the string has a character that is not a blank
NonBlank(v) ==
  /\ v.t = "string"
  /\ "cs" \in DOMAIN v
  /\ \E k \in 1..Len(v.cs) : v.cs[k] # " "

\* c + p + 2k + 2 + h + m for the Record
FanOut(art) ==
  LET cats == art.categories.a
      people == art.participants.a
      kws == art.keywords.a
  IN Cardinality({k \in 1..Len(cats) : NonBlank(cats[k])})
     + Cardinality({k \in 1..Len(people) : NonBlank(Get(people[k], "name"))})
     + 2 * Cardinality({k \in 1..Len(kws) : NonBlank(Get(kws[k], "keyword"))})
     + 2
     + (IF NonBlank(art.nameOfHouse) THEN 1 ELSE 0)
     + (IF NonBlank(art.nameOfMeeting) THEN 1 ELSE 0)

\* C28: for every Record, storeData writes exactly 1 primary row and exactly
\* c + p + 2k + 2 + h + m index rows: that many rows are built, one Put is
\* sent, and when the store rejects nothing the batch calls carry that many
\* rows in all.
C28_FanOutCount ==
  /\ pc = "sd_put" => Len(items) = FanOut(article)
  /\ pc = "st_done" =>
       LET puts == {j \in 1..Len(log) : log[j].op = "Put"}
           batches == {j \in 1..Len(log) : log[j].op = "BatchWrite"}
       IN /\ Cardinality(puts) = 1
          /\ (\A j \in batches : log[j].arg.accepted = log[j].arg.sent) =>
               Cardinality(UNION {{<<j, k>> : k \in 1..Len(log[j].arg.sent)} : j \in batches})
                 = FanOut(article)

\* a Record with one non-blank and one blank category, one participant, one
\* keyword, a house and a meeting name was stored with 8 index rows sent
C28_Witness ==
  /\ pc = "st_done"
  /\ FanOut(article) = 8
  /\ Len(article.categories.a) = 2
  /\ \A j \in 1..Len(log) : log[j].op = "BatchWrite" => log[j].arg.accepted = log[j].arg.sent
  /\ Cardinality({r \in table : r.articleId = article.id /\ r.kind # "ARTICLE"}) = 8

\* the table one successful storeData of the Record leaves, started on tbl
OnceFrom(tbl, art) ==
  LET n == Normalize(art)
  IN PutRows(PutRow(tbl, mainItem(art, n)), idxItems(art, n))

\* C29: when the same task runs twice on the same Record, one after the other
\* or interleaved, the table is exactly what the first run alone leaves: one
\* primary row for the id and the same index rows.
C29_TwiceEqualsOnce ==
  /\ (pc = "st_done" /\ twin.at = "sd_norm") => table = OnceFrom(twin.before, article)
  /\ (pc = "sd_norm" /\ twin.at = "sd_done") => table = OnceFrom(twin.before, article)
  /\ (pc = "st_done" /\ twin.at = "sd_done") =>
       /\ table = OnceFrom(twin.before, article)
       /\ Cardinality({r \in table : r.kind = "ARTICLE" /\ r.articleId = article.id}) = 1

\* both runs wrote the 8-row Record over an older Record of the same id, their
\* calls interleaved, and one of them resent a rejected row
C29_Witness ==
  /\ pc = "st_done"
  /\ twin.at = "sd_done"
  /\ FanOut(article) = 8
  /\ \E r \in twin.before : r.articleId = article.id
  /\ rejects > 0
  /\ table = OnceFrom(twin.before, article)

\* C30: after a Record with an already stored id is stored again with other
\* facets or another date, the index rows of that id in the table are exactly
\* those of the latest Record: no stale index row remains.
C30_NoStaleIndexRows ==
  pc = "st_done" =>
    LET n == Normalize(article)
        latest == {idxItems(article, n)[k] : k \in 1..Len(idxItems(article, n))}
    IN {r \in table : r.articleId = article.id /\ r.kind # "ARTICLE"} = latest

----------------------------------------------------------------------------
(* Reduce executor: the Record it builds *)

\* the value is a non-negative integer
NonNegativeInteger(v) == v.t = "number" /\ v.den = 1 /\ v.num >= 0

\* C31: every Record the reduce executor persists has a kind of the closed
\* enumeration and a non-negative integer session: when the generator output
\* is not a JSON object or omits them, no primary row is written for it.
C31_PersistedKindAndSession ==
  (~Direct /\ pc \in {"sd_batch", "red_delete"}) =>
    /\ article.imageKind \in ImageKinds
    /\ NonNegativeInteger(article.session)

\* C32: when the map task eventually writes its result blob and the calls
\* eventually succeed, the reduce task eventually persists its Record and is
\* acknowledged, whatever the order of the deliveries.
C32_ReduceEventuallyPersists == <>Completed

\* the reduce task was delivered before the map task had written its blob, was
\* republished without any call failing, and its later delivery persisted the
\* Record and was acknowledged
C32_Witness ==
  /\ Completed
  /\ faults.on /\ faults.n = 0
  /\ Get(records[1].body, "retryAttempts").num >= 1
  /\ Loc("c1") \in DOMAIN blobs

----------------------------------------------------------------------------
(* batchPutAll *)

\* C33: after a partial batch failure batchPutAll sends again exactly the
\* rejected rows and the rows not yet sent: no batch call carries a row the
\* store accepted in an earlier call, the same row twice, or more rows than
\* the batch limit.
C33_ResendsOnlyRejected ==
  Direct =>
    \A j \in 1..Len(log) :
      log[j].op = "BatchWrite" =>
        LET sent == log[j].arg.sent
        IN /\ Len(sent) <= BatchLimit
           /\ \A a, b \in 1..Len(sent) : sent[a] = sent[b] => a = b
           /\ \A h \in 1..(j - 1) :
                log[h].op = "BatchWrite" =>
                  Range(log[h].arg.accepted) \cap Range(sent) = {}

\* C34: batchPutAll terminates when the store rejects rows in finitely many
\* batch calls (at most MaxRejects here), and its pending list grows only by
\* the rows the store has just rejected.
C34_BatchPutAllTerminates ==
  /\ (pc = "sd_batch") ~> (pc # "sd_batch")
  /\ [][(pc = "sd_batch" /\ Len(items') > Len(items)) =>
          LET e == log'[Len(log')]
              Count(s, r) == Cardinality({k \in 1..Len(s) : s[k] = r})
          IN /\ e.op = "BatchWrite"
             /\ Len(e.arg.sent) > Len(e.arg.accepted)
             /\ \A r \in Range(items') :
                  Count(items', r) - Count(items, r)
                    = Count(e.arg.sent, r) - Count(e.arg.accepted, r)]_vars

\* batchPutAll returned after the store had left a row unprocessed and the
\* pending list had grown by it
C34_Witness ==
  /\ pc = "st_done"
  /\ rejects > 0
  /\ Len(items) > Len(idxItems(article, Normalize(article)))

\* C35: every acquire() call eventually returns as long as time advances:
\* a call that waits, alone or with other callers on the same limiter, is
\* eventually granted a token.
C35_EveryWaiterGranted ==
  \A c \in 1..MaxCallers :
    (c <= Len(acquire) /\ acquire[c].at = "sleeping")
      ~> (c <= Len(acquire) /\ acquire[c].at = "granted")

----------------------------------------------------------------------------
(* Merge of the generator's answer with the chunk results *)

RECURSIVE Plain(_)
\* a JSON value without the order of its keys
Plain(v) ==
  IF v.t = "object" THEN [t |-> "object", o |-> [k \in DOMAIN v.o |-> Plain(v.o[k])]]
  ELSE IF v.t = "array" THEN [t |-> "array", a |-> [k \in 1..Len(v.a) |-> Plain(v.a[k])]]
  ELSE v

\* equal by full value
SameValue(a, b) == Plain(a) = Plain(b)

\* the generator's answer the Article was built from
LastBase ==
  LET gens == {j \in 1..Len(log) : log[j].op = "Generate" /\ log[j].site = "red_gen"}
  IN parseLLMJson(log[CHOOSE j \in gens : \A h \in gens : h <= j].arg)

\* the position of the first element of s equal by full value to v
FirstAt(s, v) == CHOOSE k \in 1..Len(s) : SameValue(s[k], v) /\ \A h \in 1..(k - 1) : ~SameValue(s[h], v)

\* the merged array holds what the base array and the chunks' arrays hold and
\* nothing else, no value twice, in the order of first occurrence
MergedOf(merged, base, chunkResults, field) ==
  LET given == ArrayOrEmpty(Get(base, field)) \o FlatField(chunkResults, field)
  IN /\ \A k \in 1..Len(given) : \E m \in 1..Len(merged) : SameValue(merged[m], given[k])
     /\ \A m \in 1..Len(merged) : \E k \in 1..Len(given) : SameValue(merged[m], given[k])
     /\ \A a, b \in 1..Len(merged) : SameValue(merged[a], merged[b]) => a = b
     /\ \A a, b \in 1..Len(merged) :
          a < b => FirstAt(given, merged[a]) < FirstAt(given, merged[b])

\* C36: the merged participants and keywords of the Record (dialogs and terms
\* are merged by the same code) contain every element of the generator's base
\* array and of the same-named array of every Chunk Result, no two elements
\* equal by full value, base elements before chunk elements in
\* first-occurrence order; a Chunk Result lacking the field contributes
\* nothing.
C36_MergedArrays ==
  (~Direct /\ pc \in {"sd_norm", "sd_put", "sd_batch", "red_delete"}) =>
    /\ MergedOf(article.participants.a, LastBase, chunks, "participants")
    /\ MergedOf(article.keywords.a, LastBase, chunks, "keywords")

----------------------------------------------------------------------------
(* The map executor's result blob *)

\* the fields of a Chunk Result (ChunkJson)
ChunkFields == {"middleSummary", "participants", "dialogs", "terms", "keywords"}

\* C37: the blob the map executor writes at resultUri is the generator's raw
\* result text: read as a Chunk Result (fetchJsonObject) it shows the fields
\* the generator emitted for the chunk.
C37_BlobIsResultText ==
  (/\ log # <<>>
   /\ log[Len(log)].op = "PutObject"
   /\ log[Len(log)].ok) =>
    LET blob == blobs[Locator(parseS3Uri(Get(message, "result_url")))]
        emitted == Get(result, "text").json
    IN /\ blob = emitted
       /\ \A f \in ChunkFields : Get(blob, f) = Get(emitted, f)

----------------------------------------------------------------------------
(* Identity of the persisted Record *)

\* C38: the Record a reduce task persists has the id meeting.issueID and the
\* date meeting.date (normalized by storeData), whatever id or date the
\* generator's output carries, so every retry or duplicate delivery of the
\* task overwrites the one primary row A#<issueID>.
C38_IdAndDateFromMeeting ==
  /\ (~Direct /\ pc \in {"sd_norm", "sd_put", "sd_batch", "red_delete"}) =>
       LET meeting == Get(message, "meeting")
       IN /\ article.id = Get(meeting, "issueID")
          /\ article.date = Get(meeting, "date")
          /\ (pc \in {"sd_batch", "red_delete"}) =>
               \E r \in table :
                 /\ r.kind = "ARTICLE"
                 /\ r.PK = artPK(Get(meeting, "issueID"))
                 /\ r.articleId = Get(meeting, "issueID")
                 /\ r.date = toIsoUtc(Get(meeting, "date")).iso
  /\ ~Direct =>
       \A r \in table :
         r.kind = "ARTICLE" =>
           \E m \in queue \cup Range(records) :
             /\ Get(m.body, "type") = JStr("reduce")
             /\ r.PK = artPK(Get(Get(m.body, "meeting"), "issueID"))
  /\ (~Direct /\ faults.on) => Cardinality({r \in table : r.kind = "ARTICLE"}) <= 1

\* a retry of the reduce task has persisted the Record although the
\* generator's output carried another id and another date
C38_Witness ==
  /\ faults.on
  /\ pc = "red_delete"
  /\ Get(records[1].body, "retryAttempts").num >= 1
  /\ Get(LastBase, "id") = JStr("LLM-9")
  /\ Get(LastBase, "date") # Get(Get(message, "meeting"), "date")
  /\ \E r \in table : r.kind = "ARTICLE" /\ r.PK = artPK(JStr("ISS-1"))

----------------------------------------------------------------------------
(* requeueWithDelay: what it leaves on the queue *)

\* the call of requeueWithDelay that the last entry of the history ended:
\* by returning after DeleteMessage, or by throwing after the fallback
JustFinished ==
  /\ ~Direct
  /\ log # <<>>
  /\ \/ /\ log[Len(log)].site = "rq_delete"
        /\ pc \in {"parse", "done"}
     \/ /\ log[Len(log)].site = "rq_vis"
        /\ pc \in {"failed", "rq_send"}

\* the copies of record r's task on the queue
CopiesOf(r) == {m \in queue : m.task = r.task}

----------------------------------------------------------------------------
(* An error that leaves the handler *)

\* entry j ends a call of requeueWithDelay by a throw that nothing catches:
\* no later call of requeueWithDelay for the same record follows it
RaisedOut(j) ==
  /\ log[j].site = "rq_vis"
  /\ ~\E h \in (j + 1)..Len(log) : log[h].rec = log[j].rec /\ log[h].call > log[j].call

\* C40: when processing of a record raises out of the handler (requeueWithDelay
\* rethrows after its fallback), the handler stops at that record: for every
\* later record of the batch there is no delete, no republish and no
\* visibility change, its message stays on the queue untouched, and the
\* records handled earlier keep their outcome.
C40_StopsAtFailedRecord ==
  /\ [](~Direct =>
          \A j \in 1..Len(log) :
            RaisedOut(j) =>
              /\ cur = log[j].rec
              /\ pc \in {"failed", "rq_send"})
  /\ []((~Direct /\ pc = "failed") =>
          /\ \A j \in 1..Len(log) : log[j].rec <= cur
          /\ \A k \in (cur + 1)..Len(records) :
               {m \in queue : m.task = records[k].task} = {records[k]})
  /\ [][/\ pc # "failed"
        /\ ~Direct =>
             \A k \in 1..(cur - 1) :
               /\ {m \in queue' : m.task = records[k].task}
                    = {m \in queue : m.task = records[k].task}
               /\ SelectSeq(log', LAMBDA e : e.rec = k)
                    = SelectSeq(log, LAMBDA e : e.rec = k)]_vars

\* requeueWithDelay rethrew at a record that is not the last of the batch:
\* the next record has not been touched
C40_Witness ==
  /\ pc = "failed"
  /\ cur < Len(records)
  /\ log[Len(log)].site = "rq_vis"
  /\ records[cur + 1] \in queue

============================================================================
